---- MODULE Spec2Model ----
(***************************************************************************)
(* A model of the encounter search of the ship traffic generator           *)
(* (src/src/trafficgen): the COLREG classifier, the start-position solver  *)
(* and the bounded retry loop of generate_encounter.                       *)
(*                                                                         *)
(* Numbers.  The program computes in floating point; the model computes in *)
(* fixed point over the integers:                                          *)
(*   - bearings, courses and thresholds in units of 1e-4 rad, so that      *)
(*     np.pi is Pi = 31416;                                                *)
(*   - flat-earth north/east and lengths in metres;                        *)
(*   - speeds in units of 1/SogScale m/s (0.01 m/s);                       *)
(*   - cos and sin scaled by TrigScale, read from a table of the quarter   *)
(*     period with linear interpolation; arctan likewise;                  *)
(*   - latitude and longitude in units in which one unit of latitude is    *)
(*     one metre of northing (PiGeo units are pi rad).                     *)
(***************************************************************************)
EXTENDS Integers, Sequences, FiniteSets, TLC

VARIABLES
    call,           \* the last call of a pure function: its name, arguments and result
    pc,             \* generate_encounter: where the call stands
    request,        \* generate_encounter: its arguments (settings.relative_speed apart)
    relative_speed, \* settings.relative_speed, which assign_sog_to_target_ship writes to
    loc,            \* generate_encounter: its local variables
    hist,           \* history of the call: solver calls, random draws, attempts
    result          \* what the call returned, or the exception that ended it

pureVars == <<call>>
machineVars == <<pc, request, relative_speed, loc, hist, result>>
vars == <<call, pc, request, relative_speed, loc, hist, result>>

\* Optional values: None is the empty tuple and a value v is <<v>>.
None == <<>>
Some(v) == <<v>>

\* No generate_encounter call is under way (the specifications of the pure functions).
MachineIdle ==
    /\ pc = "idle"
    /\ request = None
    /\ relative_speed = None
    /\ loc = None
    /\ hist = None
    /\ result = None

(***************************************************************************)
(* Units                                                                   *)
(***************************************************************************)
Pi == 31416
TwoPi == 2 * Pi
HalfPi == Pi \div 2

Abs(x) == IF x < 0 THEN -x ELSE x

\* The element of a singleton: Only({e(x) : x \in {v}}) is e(v) with v computed once,
\* the way an assignment x = v followed by e(x) computes it.
Only(S) == CHOOSE v \in S : TRUE

\* Python's round(): the nearest integer to num/den, a tie going to the even one.
RoundDiv(num, den) ==
    Only({IF 2 * (n % d) < d THEN n \div d
          ELSE IF 2 * (n % d) > d THEN (n \div d) + 1
          ELSE IF (n \div d) % 2 = 0 THEN n \div d ELSE (n \div d) + 1 :
          n \in {IF den < 0 THEN -num ELSE num}, d \in {Abs(den)}})

(***************************************************************************)
(* np.sin, np.cos, np.arctan, np.arctan2, np.sqrt in fixed point           *)
(***************************************************************************)
TrigScale == 100

\* 10000 * sin(k * SinStep / 10000) for k = 0..28; 28 * SinStep is HalfPi.
SinStep == 561
SinTable ==
    <<0, 561, 1120, 1675, 2225, 2768, 3303, 3827, 4339, 4837, 5320, 5787, 6235,
      6663, 7071, 7456, 7818, 8156, 8467, 8752, 9010, 9239, 9439, 9609, 9749,
      9859, 9937, 9984, 10000>>

\* sin of an angle of the first quarter, scaled by TrigScale.
SinQuarter(a) ==
    Only({RoundDiv((IF k >= Len(SinTable) - 1 THEN SinTable[Len(SinTable)]
                    ELSE SinTable[k + 1]
                         + RoundDiv((SinTable[k + 2] - SinTable[k + 1]) * (a % SinStep),
                                    SinStep)) * TrigScale,
                   SinTable[Len(SinTable)]) :
          k \in {a \div SinStep}})

Sin(a) ==
    Only({IF m <= HalfPi THEN SinQuarter(m)
          ELSE IF m <= Pi THEN SinQuarter(Pi - m)
          ELSE IF m <= Pi + HalfPi THEN -SinQuarter(m - Pi)
          ELSE -SinQuarter(TwoPi - m) :
          m \in {a % TwoPi}})

Cos(a) == Sin(a + HalfPi)

\* 10000 * arctan(k / 32) for k = 0..32.
AtanTable ==
    <<0, 312, 624, 935, 1244, 1550, 1853, 2154, 2450, 2742, 3029, 3311, 3588,
      3859, 4124, 4383, 4636, 4883, 5124, 5358, 5586, 5808, 6023, 6232, 6435,
      6632, 6823, 7009, 7188, 7363, 7532, 7695, 7854>>

\* arctan(num / den) for 0 <= num <= den, den > 0.
AtanUnit(num, den) ==
    Only({IF x \div den >= Len(AtanTable) - 1 THEN AtanTable[Len(AtanTable)]
          ELSE AtanTable[(x \div den) + 1]
               + RoundDiv((AtanTable[(x \div den) + 2] - AtanTable[(x \div den) + 1])
                          * (x % den), den) :
          x \in {num * (Len(AtanTable) - 1)}})

\* np.arctan(num / den) for num >= 0, den > 0.
Arctan(num, den) ==
    IF num <= den THEN AtanUnit(num, den) ELSE HalfPi - AtanUnit(den, num)

\* np.arctan2(y, x), in (-pi, pi].
Arctan2(y, x) ==
    IF x = 0 THEN (IF y > 0 THEN HalfPi ELSE IF y < 0 THEN -HalfPi ELSE 0)
    ELSE IF x > 0 THEN (IF y >= 0 THEN Arctan(y, x) ELSE -Arctan(-y, x))
    ELSE IF y >= 0 THEN Pi - Arctan(y, -x)
    ELSE Arctan(-y, -x) - Pi

\* The largest r with r * r <= x, for 0 <= x < 2^31.
RECURSIVE SqrtSearch(_, _, _)
SqrtSearch(x, lo, hi) ==
    IF lo >= hi THEN lo
    ELSE LET mid == (lo + hi + 1) \div 2
         IN  IF mid * mid <= x THEN SqrtSearch(x, mid, hi) ELSE SqrtSearch(x, lo, mid - 1)
Sqrt(x) == SqrtSearch(x, 0, 46340)

(***************************************************************************)
(* marine_system_simulator: flat2llh, llh2flat, ssa                        *)
(*                                                                         *)
(* Latitude and longitude are counted in units of 1/(r_m + height_ref)     *)
(* rad, so that d_lat * (r_m + height_ref) is d_lat metres, and            *)
(* (r_n + height_ref) * cos(lat_0) is 1/lon_factor(lat_0) metres per unit: *)
(* 1 below 30 degrees of latitude and 1/2 above (cos 60 = 1/2).            *)
(***************************************************************************)
PiGeo == 20000000

\* Mutant: the angle brought into (-pi, pi].
ssa_closed_above(angle) == PiGeo - ((PiGeo - angle) % (2 * PiGeo))

ssa(angle) == ((angle + PiGeo) % (2 * PiGeo)) - PiGeo

lon_factor(lat_0) == IF Abs(lat_0) < PiGeo \div 6 THEN 1 ELSE 2

flat2llh(x_n, y_n, lat_0, lon_0) ==
    LET d_lat == x_n
        d_lon == y_n * lon_factor(lat_0)
    IN  [lat |-> ssa(lat_0 + d_lat), lon |-> ssa(lon_0 + d_lon)]

llh2flat(lat, lon, lat_0, lon_0) ==
    LET d_lon == lon - lon_0
        d_lat == lat - lat_0
    IN  [north |-> d_lat, east |-> RoundDiv(d_lon, lon_factor(lat_0))]

GeoPosition(lat, lon) == [lat |-> lat, lon |-> lon]

(***************************************************************************)
(* utils                                                                   *)
(***************************************************************************)
SogScale == 100

convert_angle_minus_pi_to_pi_to_0_to_2_pi(angle_pi) ==
    IF angle_pi >= 0 THEN angle_pi ELSE angle_pi + TwoPi

convert_angle_0_to_2_pi_to_minus_pi_to_pi(angle_2_pi) ==
    IF angle_2_pi >= 0 /\ angle_2_pi <= Pi THEN angle_2_pi ELSE angle_2_pi - TwoPi

\* Mutant: the time span taken without its sign.
calculate_position_at_certain_time_abs_time(position, lat_lon0, sog, cog, delta_time) ==
    Only({flat2llh(flat.north + RoundDiv(sog * Abs(delta_time) * Cos(cog), SogScale * TrigScale),
                   flat.east + RoundDiv(sog * Abs(delta_time) * Sin(cog), SogScale * TrigScale),
                   lat_lon0.lat, lat_lon0.lon) :
          flat \in {llh2flat(position.lat, position.lon, lat_lon0.lat, lat_lon0.lon)}})

calculate_position_at_certain_time(position, lat_lon0, sog, cog, delta_time) ==
    Only({flat2llh(flat.north + RoundDiv(sog * delta_time * Cos(cog), SogScale * TrigScale),
                   flat.east + RoundDiv(sog * delta_time * Sin(cog), SogScale * TrigScale),
                   lat_lon0.lat, lat_lon0.lon) :
          flat \in {llh2flat(position.lat, position.lon, lat_lon0.lat, lat_lon0.lon)}})

calculate_bearing_between_waypoints(position_prev, position_next) ==
    Only({convert_angle_minus_pi_to_pi_to_0_to_2_pi(Arctan2(flat.east, flat.north)) :
          flat \in {llh2flat(position_next.lat, position_next.lon,
                             position_prev.lat, position_prev.lon)}})

(***************************************************************************)
(* EncounterType and the classification thresholds                         *)
(***************************************************************************)
OVERTAKING_STAND_ON == "overtaking-stand-on"
OVERTAKING_GIVE_WAY == "overtaking-give-way"
HEAD_ON == "head-on"
CROSSING_GIVE_WAY == "crossing-give-way"
CROSSING_STAND_ON == "crossing-stand-on"
NO_RISK_COLLISION == "noRiskCollision"

EncounterType ==
    {OVERTAKING_STAND_ON, OVERTAKING_GIVE_WAY, HEAD_ON, CROSSING_GIVE_WAY,
     CROSSING_STAND_ON, NO_RISK_COLLISION}

\* EncounterClassification records, in 1e-4 rad. The first is the configuration
\* 0.087, 0.087, 1.22, [2.97, 3.40]; the second 67.5, 5, 5, [112.5, 247.5] degrees.
ClassificationNarrow ==
    [theta13_criteria |-> 870, theta14_criteria |-> 870, theta15_criteria |-> 12200,
     theta15 |-> <<29700, 34000>>]
ClassificationWide ==
    [theta13_criteria |-> 11781, theta14_criteria |-> 873, theta15_criteria |-> 873,
     theta15 |-> <<19635, 43197>>]
ClassificationSet == {ClassificationNarrow, ClassificationWide}

(***************************************************************************)
(* determine_colreg                                                        *)
(***************************************************************************)
\* limit = 0.001 rad
colreg_limit == 10

alpha_2_pi(alpha) == IF alpha >= 0 THEN alpha ELSE alpha + TwoPi
beta_pi(beta) == IF beta >= 0 /\ beta <= Pi THEN beta ELSE beta - TwoPi

cond_overtaking_stand_on(alpha, beta, theta13_criteria, theta15) ==
    /\ beta > theta15[1]
    /\ beta < theta15[2]
    /\ Abs(alpha) - theta13_criteria <= colreg_limit

\* Mutant: the range test on alpha without the mapping to [0, 2*pi).
cond_overtaking_give_way_unmapped(alpha, beta, theta13_criteria, theta15) ==
    /\ alpha > theta15[1]
    /\ alpha < theta15[2]
    /\ Abs(beta_pi(beta)) - theta13_criteria <= colreg_limit

cond_overtaking_give_way(alpha, beta, theta13_criteria, theta15) ==
    /\ alpha_2_pi(alpha) > theta15[1]
    /\ alpha_2_pi(alpha) < theta15[2]
    /\ Abs(beta_pi(beta)) - theta13_criteria <= colreg_limit

\* Mutant: the test on alpha without abs().
cond_head_on_signed(alpha, beta, theta14_criteria) ==
    /\ Abs(beta_pi(beta)) - theta14_criteria <= colreg_limit
    /\ alpha - theta14_criteria <= colreg_limit

cond_head_on(alpha, beta, theta14_criteria) ==
    /\ Abs(beta_pi(beta)) - theta14_criteria <= colreg_limit
    /\ Abs(alpha) - theta14_criteria <= colreg_limit

cond_crossing_give_way(alpha, beta, theta15_criteria, theta15) ==
    /\ beta > 0
    /\ beta < theta15[1]
    /\ alpha > -theta15[1]
    /\ alpha - theta15_criteria <= colreg_limit

cond_crossing_stand_on(alpha, beta, theta15_criteria, theta15) ==
    /\ alpha_2_pi(alpha) > 0
    /\ alpha_2_pi(alpha) < theta15[1]
    /\ beta_pi(beta) > -theta15[1]
    /\ beta_pi(beta) - theta15_criteria <= colreg_limit

\* Mutant: crossing give-way tried before head-on.
determine_colreg_crossing_first(alpha, beta, theta13_criteria, theta14_criteria, theta15_criteria, theta15) ==
    IF cond_overtaking_stand_on(alpha, beta, theta13_criteria, theta15)
    THEN OVERTAKING_STAND_ON
    ELSE IF cond_overtaking_give_way(alpha, beta, theta13_criteria, theta15)
    THEN OVERTAKING_GIVE_WAY
    ELSE IF cond_crossing_give_way(alpha, beta, theta15_criteria, theta15)
    THEN CROSSING_GIVE_WAY
    ELSE IF cond_head_on(alpha, beta, theta14_criteria)
    THEN HEAD_ON
    ELSE IF cond_crossing_stand_on(alpha, beta, theta15_criteria, theta15)
    THEN CROSSING_STAND_ON
    ELSE NO_RISK_COLLISION

determine_colreg(alpha, beta, theta13_criteria, theta14_criteria, theta15_criteria, theta15) ==
    IF cond_overtaking_stand_on(alpha, beta, theta13_criteria, theta15)
    THEN OVERTAKING_STAND_ON
    ELSE IF cond_overtaking_give_way(alpha, beta, theta13_criteria, theta15)
    THEN OVERTAKING_GIVE_WAY
    ELSE IF cond_head_on(alpha, beta, theta14_criteria)
    THEN HEAD_ON
    ELSE IF cond_crossing_give_way(alpha, beta, theta15_criteria, theta15)
    THEN CROSSING_GIVE_WAY
    ELSE IF cond_crossing_stand_on(alpha, beta, theta15_criteria, theta15)
    THEN CROSSING_STAND_ON
    ELSE NO_RISK_COLLISION

classify(alpha, beta, c) ==
    determine_colreg(alpha, beta, c.theta13_criteria, c.theta14_criteria,
                     c.theta15_criteria, c.theta15)

(***************************************************************************)
(* calculate_ship_cog, calculate_relative_bearing                          *)
(***************************************************************************)
calculate_ship_cog(pos_0, pos_1, lat_lon0) ==
    Only({RoundDiv(IF cog < 0 THEN cog + TwoPi ELSE cog, 10) * 10 :      \* round(cog, 3)
          cog \in {Only({Arctan2(f_1.east - f_0.east, f_1.north - f_0.north) :
                         f_0 \in {llh2flat(pos_0.lat, pos_0.lon, lat_lon0.lat, lat_lon0.lon)},
                         f_1 \in {llh2flat(pos_1.lat, pos_1.lon, lat_lon0.lat, lat_lon0.lon)}})}})

\* while beta < 0: beta += 2 * pi; while beta >= 2 * pi: beta -= 2 * pi
RECURSIVE wrap_beta(_)
wrap_beta(beta) ==
    IF beta < 0 THEN wrap_beta(beta + TwoPi)
    ELSE IF beta >= TwoPi THEN wrap_beta(beta - TwoPi)
    ELSE beta

\* Mutant: alpha wrapped into (-pi, pi].
wrap_alpha_closed_above(alpha) == Pi - ((Pi - alpha) % TwoPi)

\* while alpha < -pi: alpha += 2 * pi; while alpha >= pi: alpha -= 2 * pi
RECURSIVE wrap_alpha(_)
wrap_alpha(alpha) ==
    IF alpha < -Pi THEN wrap_alpha(alpha + TwoPi)
    ELSE IF alpha >= Pi THEN wrap_alpha(alpha - TwoPi)
    ELSE alpha

calculate_relative_bearing(position_own_ship, heading_own_ship, position_target_ship, heading_target_ship, lat_lon0) ==
    Only({[beta |-> wrap_beta(bng_own_ship_target_ship - heading_own_ship),
           alpha |-> wrap_alpha(bng_own_ship_target_ship + Pi - heading_target_ship)] :
          bng_own_ship_target_ship \in
              {Only({IF own.east = tgt.east
                     THEN (IF own.north <= tgt.north THEN 0 ELSE Pi)
                     ELSE Only({IF own.east < tgt.east
                                THEN (IF own.north <= tgt.north
                                      THEN HalfPi - atan ELSE HalfPi + atan)
                                ELSE IF own.north <= tgt.north
                                THEN 3 * HalfPi + atan
                                ELSE 3 * HalfPi - atan :
                                atan \in {Arctan(Abs(tgt.north - own.north),
                                                 Abs(tgt.east - own.east))}}) :
                     own \in {llh2flat(position_own_ship.lat, position_own_ship.lon,
                                       lat_lon0.lat, lat_lon0.lon)},
                     tgt \in {llh2flat(position_target_ship.lat, position_target_ship.lon,
                                       lat_lon0.lat, lat_lon0.lon)}})}})

(***************************************************************************)
(* find_start_position_target_ship                                         *)
(***************************************************************************)
\* limit = 0.01 rad
start_position_limit == 100

\* The coefficients of the quadratic; a is scaled by TrigScale^2, b by TrigScale and
\* the discriminant b**2 - 4*a*c by TrigScale^2.
start_position_quadratic(own_ship_position, lat_lon0, own_ship_cog, target_ship_position_future, target_ship_vector_length, desired_beta) ==
    Only({Only({[n_1 |-> p_1.north, e_1 |-> p_1.east, d_n |-> d_n, d_e |-> d_e,
                 a |-> k.a, b |-> k.b, c |-> k.c,
                 discriminant |-> k.b * k.b - 4 * k.a * k.c] :
                k \in {[a |-> d_e * d_e + d_n * d_n,
                        b |-> -2 * p_2.east * (p_1.east * TrigScale + d_e)
                              - 2 * p_2.north * (p_1.north * TrigScale + d_n)
                              + 2 * p_1.east * p_2.east * TrigScale
                              + 2 * p_1.north * p_2.north * TrigScale
                              + 2 * p_1.east * d_e + 2 * p_1.north * d_n,
                        c |-> p_2.east * p_2.east + p_2.north * p_2.north
                              - 2 * p_1.east * p_2.east - 2 * p_1.north * p_2.north
                              - target_ship_vector_length * target_ship_vector_length
                              + p_1.east * p_1.east + p_1.north * p_1.north]}}) :
          p_1 \in {llh2flat(own_ship_position.lat, own_ship_position.lon,
                            lat_lon0.lat, lat_lon0.lon)},
          p_2 \in {llh2flat(target_ship_position_future.lat, target_ship_position_future.lon,
                            lat_lon0.lat, lat_lon0.lon)},
          d_n \in {Cos(own_ship_cog + desired_beta)},     \* n_4 - n_1, times TrigScale
          d_e \in {Sin(own_ship_cog + desired_beta)}})    \* e_4 - e_1, times TrigScale

\* One root s of the quadratic (sign = 1: s_1, sign = -1: s_2): the rounded flat
\* position, its geodetic position, the course from it to the future position, the
\* relative bearings and the classification.
start_position_root(q, sign, own_ship_position, lat_lon0, own_ship_cog, target_ship_position_future, classification) ==
    Only({Only({Only({[position |-> position, cog |-> target_ship_cog,
                       beta |-> bearing.beta, alpha |-> bearing.alpha,
                       colreg_state |-> classify(bearing.alpha, bearing.beta, classification)] :
                      bearing \in {calculate_relative_bearing(
                                       own_ship_position, own_ship_cog, position,
                                       target_ship_cog, lat_lon0)}}) :
                target_ship_cog \in {calculate_ship_cog(position, target_ship_position_future,
                                                        lat_lon0)}}) :
          position \in
              {Only({flat2llh(q.n_1 + RoundDiv(numerator * q.d_n, 2 * q.a),
                              q.e_1 + RoundDiv(numerator * q.d_e, 2 * q.a),
                              lat_lon0.lat, lat_lon0.lon) :
                     \* s * 2 * a / TrigScale
                     numerator \in {-q.b + sign * Sqrt(q.discriminant)}})}})

\* desired_encounter_type is colreg_state and
\* np.abs(convert_angle_0_to_2_pi_to_minus_pi_to_pi(np.abs(beta - desired_beta))) < limit
start_position_accepted(root, desired_beta, desired_encounter_type) ==
    /\ desired_encounter_type = root.colreg_state
    /\ Abs(convert_angle_0_to_2_pi_to_minus_pi_to_pi(Abs(root.beta - desired_beta)))
         < start_position_limit

\* Mutant: the guard with < in place of <=, so that a zero discriminant is solved.
find_start_position_target_ship_strict(own_ship_position, lat_lon0, own_ship_cog, target_ship_position_future, target_ship_vector_length, desired_beta, desired_encounter_type, classification) ==
    Only({IF q.discriminant < 0
          THEN [position |-> target_ship_position_future, found |-> FALSE]
          ELSE Only({IF start_position_accepted(root_1, desired_beta, desired_encounter_type)
                     THEN [position |-> root_1.position, found |-> TRUE]
                     ELSE IF start_position_accepted(root_2, desired_beta, desired_encounter_type)
                     THEN [position |-> root_2.position, found |-> TRUE]
                     ELSE [position |-> target_ship_position_future, found |-> FALSE] :
                     root_1 \in {start_position_root(q, 1, own_ship_position, lat_lon0,
                                     own_ship_cog, target_ship_position_future, classification)},
                     root_2 \in {start_position_root(q, -1, own_ship_position, lat_lon0,
                                     own_ship_cog, target_ship_position_future, classification)}}) :
          q \in {start_position_quadratic(own_ship_position, lat_lon0, own_ship_cog,
                                          target_ship_position_future,
                                          target_ship_vector_length, desired_beta)}})

\* Mutant: the two roots tried in the order s_2, s_1.
find_start_position_target_ship_s2_first(own_ship_position, lat_lon0, own_ship_cog, target_ship_position_future, target_ship_vector_length, desired_beta, desired_encounter_type, classification) ==
    Only({IF q.discriminant <= 0
          THEN [position |-> target_ship_position_future, found |-> FALSE]
          ELSE Only({IF start_position_accepted(root_2, desired_beta, desired_encounter_type)
                     THEN [position |-> root_2.position, found |-> TRUE]
                     ELSE IF start_position_accepted(root_1, desired_beta, desired_encounter_type)
                     THEN [position |-> root_1.position, found |-> TRUE]
                     ELSE [position |-> target_ship_position_future, found |-> FALSE] :
                     root_1 \in {start_position_root(q, 1, own_ship_position, lat_lon0,
                                     own_ship_cog, target_ship_position_future, classification)},
                     root_2 \in {start_position_root(q, -1, own_ship_position, lat_lon0,
                                     own_ship_cog, target_ship_position_future, classification)}}) :
          q \in {start_position_quadratic(own_ship_position, lat_lon0, own_ship_cog,
                                          target_ship_position_future,
                                          target_ship_vector_length, desired_beta)}})

find_start_position_target_ship(own_ship_position, lat_lon0, own_ship_cog, target_ship_position_future, target_ship_vector_length, desired_beta, desired_encounter_type, classification) ==
    Only({IF q.discriminant <= 0
          THEN [position |-> target_ship_position_future, found |-> FALSE]
          ELSE Only({IF start_position_accepted(root_1, desired_beta, desired_encounter_type)
                     THEN [position |-> root_1.position, found |-> TRUE]
                     ELSE IF start_position_accepted(root_2, desired_beta, desired_encounter_type)
                     THEN [position |-> root_2.position, found |-> TRUE]
                     ELSE [position |-> target_ship_position_future, found |-> FALSE] :
                     root_1 \in {start_position_root(q, 1, own_ship_position, lat_lon0,
                                     own_ship_cog, target_ship_position_future, classification)},
                     root_2 \in {start_position_root(q, -1, own_ship_position, lat_lon0,
                                     own_ship_cog, target_ship_position_future, classification)}}) :
          q \in {start_position_quadratic(own_ship_position, lat_lon0, own_ship_cog,
                                          target_ship_position_future,
                                          target_ship_vector_length, desired_beta)}})

(***************************************************************************)
(* utils: the position along a track of waypoints                          *)
(***************************************************************************)
Waypoint(position) == [position |-> position, leg_sog |-> None]

calculate_distance(position_prev, position_next) ==
    Only({Sqrt(flat.north * flat.north + flat.east * flat.east) :
          flat \in {llh2flat(position_next.lat, position_next.lon,
                             position_prev.lat, position_prev.lon)}})

calculate_destination_along_track(position_prev, distance, bearing) ==
    flat2llh(RoundDiv(distance * Cos(bearing), TrigScale),
             RoundDiv(distance * Sin(bearing), TrigScale),
             position_prev.lat, position_prev.lon)

\* Mutant: the ship carried on along the leg it is on, past the waypoint at its end.
position_along_track_past_waypoint(waypoints, inital_speed, vector_time, i, time_in_transit) ==
    calculate_destination_along_track(
        waypoints[i - 1].position,
        RoundDiv((IF waypoints[i].leg_sog = None THEN inital_speed
                  ELSE waypoints[i].leg_sog[1]) * (vector_time - time_in_transit), SogScale),
        calculate_bearing_between_waypoints(waypoints[i - 1].position, waypoints[i].position))

\* The for loop of calculate_position_along_track_using_waypoints from waypoint i on
\* (counted from 1), time_in_transit seconds of vector_time being spent already.
RECURSIVE position_along_track_from(_, _, _, _, _)
position_along_track_from(waypoints, inital_speed, vector_time, i, time_in_transit) ==
    IF i > Len(waypoints) THEN waypoints[Len(waypoints)].position
    ELSE LET ship_speed == IF waypoints[i].leg_sog = None THEN inital_speed
                           ELSE waypoints[i].leg_sog[1]
             dist_between_waypoints ==
                 calculate_distance(waypoints[i - 1].position, waypoints[i].position)
             dist_travel == RoundDiv(ship_speed * (vector_time - time_in_transit), SogScale)
         IN  IF dist_travel > dist_between_waypoints
             THEN position_along_track_from(
                      waypoints, inital_speed, vector_time, i + 1,
                      time_in_transit + RoundDiv(dist_between_waypoints * SogScale, ship_speed))
             ELSE calculate_destination_along_track(
                      waypoints[i - 1].position, dist_travel,
                      calculate_bearing_between_waypoints(waypoints[i - 1].position,
                                                          waypoints[i].position))

calculate_position_along_track_using_waypoints(waypoints, inital_speed, vector_time) ==
    position_along_track_from(waypoints, inital_speed, vector_time, 2, 0)

(***************************************************************************)
(* types: Initial, Ship.__init__, TargetShip.__init__                      *)
(***************************************************************************)
UNDER_WAY_USING_ENGINE == "Under way using engine"

Initial(position, sog, cog, heading, nav_status) ==
    [position |-> position, sog |-> sog, cog |-> cog, heading |-> heading,
     nav_status |-> nav_status]

\* Ship._generate_waypoints: the initial position and the point reached on the course
\* after the distance sog * 0.51444 * 3600 * 3 (pyproj's Geod.fwd, here the flat earth).
generate_waypoints(initial) ==
    IF initial = None THEN None
    ELSE <<Waypoint(GeoPosition(initial.position.lat, initial.position.lon)),
           Waypoint(calculate_destination_along_track(
                        initial.position, RoundDiv(initial.sog * 5556, SogScale),
                        initial.cog))>>

\* Ship.__init__ generates the waypoints when none are given; TargetShip.__init__ names
\* a ship without a name "TGT <id>". Names are pairs <<prefix, number>>.
TargetShip(static, initial, waypoints) ==
    [static |-> IF static.name = None
                THEN [static EXCEPT !.name = <<"TGT", static.id>>]
                ELSE static,
     initial |-> initial,
     waypoints |-> IF waypoints = None THEN generate_waypoints(initial) ELSE waypoints]

(***************************************************************************)
(* check_land_crossing                                                     *)
(***************************************************************************)
\* num_checks = 10
num_checks == 10

\* len(range(int(time_interval / num_checks))): the number of rounds the loop of
\* path_crosses_land is set up for.
range_length(time_interval) == IF time_interval < 0 THEN 0 ELSE time_interval \div num_checks

\* The fields of Position, both required.
PositionFields == {"x", "y"}

\* Position(**keywords) raises a ValidationError when a required field is not given.
position_constructor_raises(keywords) == PositionFields \ keywords # {}

\* path_crosses_land reads position_1.north and position_1.east; a GeoPosition has the
\* fields lat and lon only, so that a call with one ends in an AttributeError. With a
\* position that has them the first round of the loop builds
\* Position(north=north_1, east=east_1) and ends in a ValidationError before
\* calculate_position_at_certain_time or the land mask is called; without a round the
\* function returns False.
path_crosses_land(position_1, speed, course, lat_lon0, time_interval) ==
    IF "north" \notin DOMAIN position_1 THEN "AttributeError"
    ELSE IF range_length(time_interval) > 0
            /\ position_constructor_raises({"north", "east"})
    THEN "ValidationError"
    ELSE "False"

(***************************************************************************)
(* The random draws                                                        *)
(***************************************************************************)
\* random.uniform(0, 1) takes the values u / UniformSteps, u in UniformSamples.
UniformSteps == 2
UniformSamples == 0..(UniformSteps - 1)

\* random.uniform(0, 1) * x
Scaled(u, x) == RoundDiv(u * x, UniformSteps)

(***************************************************************************)
(* encounter: the helpers of generate_encounter                            *)
(***************************************************************************)
\* Relative speeds are ratios in units of 1 / RatioScale.
RatioScale == 100

decide_target_ship(target_ships_static, target_ship_to_use) ==
    target_ships_static[target_ship_to_use]

\* Which object a ShipStatic is: NewObject is an object that no list holds, a number i > 0
\* is the i-th element of the list target_ships_static of the caller.
NewObject == 0

\* Mutant: decide_target_ship returning the element of the list itself.
decide_target_ship_object_of_list(target_ship_to_use) == target_ship_to_use

\* decide_target_ship returns target_ship_static.model_copy(deep=True), an object of its
\* own whichever element was drawn.
decide_target_ship_object(target_ship_to_use) == NewObject

\* The list target_ships_static after the fields of the ShipStatic object were assigned
\* to: an assignment to an element of the list shows in the list, one to another object
\* does not.
target_ships_static_after(target_ships_static, object, static) ==
    IF object = NewObject THEN target_ships_static
    ELSE [target_ships_static EXCEPT ![object] = static]

\* Mutant: the upper limit taken for the width of the range.
assign_beta_from_list_upper_as_width(beta_limit, u) ==
    beta_limit[1] + Scaled(u, beta_limit[2])

assign_beta_from_list(beta_limit, u) ==
    beta_limit[1] + Scaled(u, beta_limit[2] - beta_limit[1])

assign_beta(encounter_type, classification, u) ==
    LET theta13_crit == classification.theta13_criteria
        theta14_crit == classification.theta14_criteria
        theta15_crit == classification.theta15_criteria
        theta15 == classification.theta15
    IN  IF encounter_type = OVERTAKING_STAND_ON
        THEN theta15[1] + Scaled(u, theta15[2] - theta15[1])
        ELSE IF encounter_type = OVERTAKING_GIVE_WAY
        THEN -theta13_crit + Scaled(u, theta13_crit - (-theta13_crit))
        ELSE IF encounter_type = HEAD_ON
        THEN -theta14_crit + Scaled(u, theta14_crit - (-theta14_crit))
        ELSE IF encounter_type = CROSSING_GIVE_WAY
        THEN 0 + Scaled(u, theta15[1] - 0)
        ELSE IF encounter_type = CROSSING_STAND_ON
        THEN convert_angle_minus_pi_to_pi_to_0_to_2_pi(
                 -theta15[2] + Scaled(u, theta15[2] + theta15_crit))
        ELSE 0

assign_future_position_to_target_ship(own_ship_position_future, lat_lon0, max_meeting_distance, u_angle, u_distance) ==
    Only({flat2llh(own.north + RoundDiv(random_distance * Cos(random_angle), TrigScale),
                   own.east + RoundDiv(random_distance * Sin(random_angle), TrigScale),
                   lat_lon0.lat, lat_lon0.lon) :
          random_angle \in {Scaled(u_angle, TwoPi)},
          random_distance \in {Scaled(u_distance, max_meeting_distance)},
          own \in {llh2flat(own_ship_position_future.lat, own_ship_position_future.lon,
                            lat_lon0.lat, lat_lon0.lon)}})

calculate_min_vector_length_target_ship(own_ship_position, own_ship_cog, target_ship_position_future, desired_beta, lat_lon0) ==
    Only({RoundDiv(Abs(cos_psi * (tgt.east - own.east) - sin_psi * (tgt.north - own.north)),
                   Sqrt(cos_psi * cos_psi + sin_psi * sin_psi)) :
          cos_psi \in {Cos(own_ship_cog + desired_beta)},
          sin_psi \in {Sin(own_ship_cog + desired_beta)},
          own \in {llh2flat(own_ship_position.lat, own_ship_position.lon,
                            lat_lon0.lat, lat_lon0.lon)},
          tgt \in {llh2flat(target_ship_position_future.lat, target_ship_position_future.lon,
                            lat_lon0.lat, lat_lon0.lon)}})

relative_sog_field(encounter_type) ==
    IF encounter_type = OVERTAKING_STAND_ON THEN "overtaking_stand_on"
    ELSE IF encounter_type = OVERTAKING_GIVE_WAY THEN "overtaking_give_way"
    ELSE IF encounter_type = HEAD_ON THEN "head_on"
    ELSE IF encounter_type = CROSSING_GIVE_WAY THEN "crossing_give_way"
    ELSE IF encounter_type = CROSSING_STAND_ON THEN "crossing_stand_on"
    ELSE "none"

\* Mutant: the lower bound of the range never raised to the minimum speed.
assign_sog_to_target_ship_keeps_lower_bound(encounter_type, own_ship_sog, min_target_ship_sog, relative_sog_setting, u) ==
    LET field == relative_sog_field(encounter_type)
        relative_sog == IF field = "none" THEN <<0, 0>> ELSE relative_sog_setting[field]
    IN  IF own_ship_sog = 0
        THEN [raised |-> "ZeroDivisionError", target_ship_sog |-> 0,
              relative_sog_setting |-> relative_sog_setting]
        ELSE LET in_range == FALSE
                 low == IF in_range
                        THEN RoundDiv(min_target_ship_sog * RatioScale, own_ship_sog)
                        ELSE relative_sog[1]
             IN  [raised |-> "",
                  target_ship_sog |->
                      RoundDiv((low * UniformSteps + u * (relative_sog[2] - low)) * own_ship_sog,
                               UniformSteps * RatioScale),
                  relative_sog_setting |->
                      IF in_range /\ field # "none"
                      THEN [relative_sog_setting EXCEPT ![field] = <<low, relative_sog[2]>>]
                      ELSE relative_sog_setting]

\* The result holds the speed, the setting as the call leaves it (relative_sog[0] is
\* assigned in place) and the exception, if one ended the call.
assign_sog_to_target_ship(encounter_type, own_ship_sog, min_target_ship_sog, relative_sog_setting, u) ==
    LET field == relative_sog_field(encounter_type)
        relative_sog == IF field = "none" THEN <<0, 0>> ELSE relative_sog_setting[field]
    IN  IF own_ship_sog = 0
        THEN [raised |-> "ZeroDivisionError", target_ship_sog |-> 0,
              relative_sog_setting |-> relative_sog_setting]
        ELSE LET in_range ==
                     /\ min_target_ship_sog * RatioScale > relative_sog[1] * own_ship_sog
                     /\ min_target_ship_sog * RatioScale < relative_sog[2] * own_ship_sog
                 low == IF in_range
                        THEN RoundDiv(min_target_ship_sog * RatioScale, own_ship_sog)
                        ELSE relative_sog[1]
             IN  [raised |-> "",
                  target_ship_sog |->
                      RoundDiv((low * UniformSteps + u * (relative_sog[2] - low)) * own_ship_sog,
                               UniformSteps * RatioScale),
                  relative_sog_setting |->
                      IF in_range /\ field # "none"
                      THEN [relative_sog_setting EXCEPT ![field] = <<low, relative_sog[2]>>]
                      ELSE relative_sog_setting]

check_encounter_evolvement(own_ship, own_ship_cog, own_ship_position_future, lat_lon0, target_ship_sog, target_ship_cog, target_ship_position_future, desired_encounter_type, encounter_settings) ==
    Only({classify(pre.alpha, pre.beta, encounter_settings.classification)
              = desired_encounter_type :
          pre \in {calculate_relative_bearing(
                       \* encounter_preposition_own_ship
                       calculate_position_at_certain_time(
                           own_ship_position_future, lat_lon0, own_ship.initial.sog,
                           own_ship_cog, -encounter_settings.evolve_time),
                       own_ship_cog,
                       \* encounter_preposition_target_ship
                       calculate_position_at_certain_time(
                           target_ship_position_future, lat_lon0, target_ship_sog,
                           target_ship_cog, -encounter_settings.evolve_time),
                       target_ship_cog, lat_lon0)}})

(***************************************************************************)
(* encounter: generate_encounter                                           *)
(***************************************************************************)
maximum_loops == 5

outer_loop_continues(encounter_found, outer_counter) ==
    ~encounter_found /\ outer_counter < maximum_loops

\* Mutant: the inner loop allowed one more round.
inner_loop_continues_one_more(encounter_found, inner_counter) ==
    ~encounter_found /\ inner_counter <= maximum_loops

\* Mutant: the inner loop not stopped by a found encounter.
inner_loop_continues_after_found(encounter_found, inner_counter) ==
    inner_counter < maximum_loops

inner_loop_continues(encounter_found, inner_counter) ==
    ~encounter_found /\ inner_counter < maximum_loops

\* target_ship_sog = round(np.minimum(target_ship_sog, target_ship_static.sog_max), 1)
clamp_target_ship_sog(target_ship_sog, sog_max) ==
    RoundDiv(IF target_ship_sog < sog_max THEN target_ship_sog ELSE sog_max, 10) * 10

\* Mutant: an encounter is found as soon as a start position is.
encounter_found_after_check_position_only(encounter_ok, trajectory_on_land, disable_land_check) ==
    TRUE

\* if settings.disable_land_check is False: encounter_ok and not trajectory_on_land
\* else: encounter_ok
encounter_found_after_check(encounter_ok, trajectory_on_land, disable_land_check) ==
    IF ~disable_land_check THEN encounter_ok /\ trajectory_on_land = "False"
    ELSE encounter_ok

\* One round of the inner loop, u_sog being the draw of assign_sog_to_target_ship: the
\* values it assigns, what it called, and the exception if one ended it.
attempt(req, relative_sog_setting, l, u_sog) ==
    LET own_ship == req.own_ship
        settings == req.settings
        sampled == req.relative_sog_default = None
        min_vector_length ==
            calculate_min_vector_length_target_ship(
                own_ship.initial.position, l.own_ship_cog, l.target_ship_position_future,
                l.beta, l.lat_lon0)
        assigned ==
            IF ~sampled
            THEN [raised |-> "",
                  target_ship_sog |->
                      RoundDiv(req.relative_sog_default[1] * own_ship.initial.sog, RatioScale),
                  relative_sog_setting |-> relative_sog_setting]
            ELSE IF l.vector_time = 0
            THEN [raised |-> "ZeroDivisionError", target_ship_sog |-> 0,
                  relative_sog_setting |-> relative_sog_setting]
            ELSE assign_sog_to_target_ship(
                     req.desired_encounter_type, own_ship.initial.sog,
                     RoundDiv(min_vector_length * SogScale, l.vector_time),
                     relative_sog_setting, u_sog)
        failed == [raised |-> assigned.raised,
                   relative_sog_setting |-> assigned.relative_sog_setting,
                   draws |-> 0, solver_called |-> FALSE, land_called |-> FALSE,
                   target_ship_sog |-> l.target_ship_sog,
                   target_ship_vector_length |-> 0,
                   position_found |-> FALSE,
                   start_position_target_ship |-> None,
                   target_ship_initial_position |-> l.target_ship_initial_position,
                   target_ship_cog |-> l.target_ship_cog,
                   encounter_ok |-> FALSE,
                   encounter_found |-> l.encounter_found,
                   min_target_ship_sog |->
                       IF sampled /\ l.vector_time # 0
                       THEN Some(RoundDiv(min_vector_length * SogScale, l.vector_time))
                       ELSE None,
                   assigned_sog |->
                       IF sampled /\ assigned.raised = ""
                       THEN Some(assigned.target_ship_sog) ELSE None]
    IN  IF assigned.raised # "" THEN failed
        ELSE IF l.target_ship_static.sog_max = None
        THEN [failed EXCEPT !.raised = "AssertionError",
                            !.draws = IF sampled THEN 1 ELSE 0,
                            !.target_ship_sog = assigned.target_ship_sog]
        ELSE
        LET target_ship_sog ==
                clamp_target_ship_sog(assigned.target_ship_sog, l.target_ship_static.sog_max[1])
            target_ship_vector_length == RoundDiv(target_ship_sog * l.vector_time, SogScale)
            solved ==
                find_start_position_target_ship(
                    own_ship.initial.position, l.lat_lon0, l.own_ship_cog,
                    l.target_ship_position_future, target_ship_vector_length, l.beta,
                    req.desired_encounter_type, settings.classification)
            target_ship_cog ==
                calculate_ship_cog(solved.position, l.target_ship_position_future, l.lat_lon0)
            encounter_ok ==
                check_encounter_evolvement(
                    own_ship, l.own_ship_cog, own_ship.initial.position, l.lat_lon0,
                    target_ship_sog, target_ship_cog, l.target_ship_position_future,
                    req.desired_encounter_type, settings)
            trajectory_on_land ==
                IF settings.disable_land_check THEN "not called"
                ELSE path_crosses_land(solved.position, target_ship_sog, target_ship_cog,
                                       l.lat_lon0, settings.situation_length)
            ran == [failed EXCEPT !.draws = IF sampled THEN 1 ELSE 0,
                                  !.solver_called = TRUE,
                                  !.target_ship_sog = target_ship_sog,
                                  !.target_ship_vector_length = target_ship_vector_length,
                                  !.start_position_target_ship = solved.position]
        IN  IF ~solved.found THEN ran
            ELSE IF trajectory_on_land \in {"AttributeError", "ValidationError"}
            THEN [ran EXCEPT !.raised = trajectory_on_land,
                             !.land_called = TRUE,
                             !.position_found = TRUE,
                             !.target_ship_initial_position = solved.position,
                             !.target_ship_cog = target_ship_cog,
                             !.encounter_ok = encounter_ok]
            ELSE [ran EXCEPT !.land_called = ~settings.disable_land_check,
                             !.position_found = TRUE,
                             !.target_ship_initial_position = solved.position,
                             !.target_ship_cog = target_ship_cog,
                             !.encounter_ok = encounter_ok,
                             !.encounter_found =
                                 encounter_found_after_check(
                                     encounter_ok, trajectory_on_land,
                                     settings.disable_land_check)]

\* Mutant: the heading left at zero.
found_target_ship_heading_zero(target_ship_static, target_ship_id, encounter_number, target_ship_initial_position, target_ship_sog, target_ship_cog, lat_lon0, situation_length) ==
    TargetShip([target_ship_static EXCEPT !.id = target_ship_id,
                                          !.name = <<"target_ship", encounter_number>>],
               Initial(target_ship_initial_position, target_ship_sog, target_ship_cog, 0,
                       UNDER_WAY_USING_ENGINE),
               <<Waypoint(target_ship_initial_position),
                 Waypoint(calculate_position_at_certain_time(
                              target_ship_initial_position, lat_lon0, target_ship_sog,
                              target_ship_cog, situation_length))>>)

\* The branch "if encounter_found" of generate_encounter.
found_target_ship(target_ship_static, target_ship_id, encounter_number, target_ship_initial_position, target_ship_sog, target_ship_cog, lat_lon0, situation_length) ==
    TargetShip([target_ship_static EXCEPT !.id = target_ship_id,
                                          !.name = <<"target_ship", encounter_number>>],
               Initial(target_ship_initial_position, target_ship_sog, target_ship_cog,
                       target_ship_cog, UNDER_WAY_USING_ENGINE),
               <<Waypoint(target_ship_initial_position),
                 Waypoint(calculate_position_at_certain_time(
                              target_ship_initial_position, lat_lon0, target_ship_sog,
                              target_ship_cog, situation_length))>>)

\* Mutant: the ship of the branch "else" built without an initial state.
not_found_target_ship_without_initial(target_ship_static, own_ship) ==
    TargetShip(target_ship_static, None, None)

\* The branch "else": the template with the initial state of own ship, no waypoints given.
not_found_target_ship(target_ship_static, own_ship) ==
    TargetShip(target_ship_static, own_ship.initial, None)

(***************************************************************************)
(* The classifier on a grid of angles                                      *)
(***************************************************************************)
GridN == 12

Mid(lo, hi) == (lo + hi) \div 2

\* The pair (alpha, beta) in the middle of the ranges a rule tests.
MidPair(type, c) ==
    CASE type = OVERTAKING_STAND_ON ->
            [alpha |-> 0, beta |-> Mid(c.theta15[1], c.theta15[2])]
      [] type = OVERTAKING_GIVE_WAY ->
            [alpha |-> Mid(c.theta15[1], c.theta15[2]) - TwoPi, beta |-> 0]
      [] type = HEAD_ON ->
            [alpha |-> 0, beta |-> 0]
      [] type = CROSSING_GIVE_WAY ->
            [alpha |-> Mid(-c.theta15[1], c.theta15_criteria),
             beta |-> Mid(0, c.theta15[1])]
      [] type = CROSSING_STAND_ON ->
            [alpha |-> Mid(0, c.theta15[1]),
             beta |-> Mid(-c.theta15[1], c.theta15_criteria) + TwoPi]

RiskTypes == EncounterType \ {NO_RISK_COLLISION}

CriticalAngles(c) ==
    {0, Pi, c.theta13_criteria, c.theta14_criteria, c.theta15_criteria,
     c.theta15[1], c.theta15[2]}
NearCritical(c) ==
    {a + d : a \in CriticalAngles(c), d \in {-colreg_limit - 1, -colreg_limit, 0,
                                              colreg_limit, colreg_limit + 1}}
GridAngles == {(k * TwoPi) \div GridN : k \in 0..GridN}

AlphaGrid(c) ==
    {a \in NearCritical(c) \cup {-x : x \in NearCritical(c)}
           \cup {g - Pi : g \in GridAngles}
           \cup {MidPair(t, c).alpha : t \in RiskTypes} : a >= -Pi /\ a <= Pi}
BetaGrid(c) ==
    {b \in NearCritical(c) \cup {TwoPi - x : x \in NearCritical(c)}
           \cup GridAngles
           \cup {MidPair(t, c).beta : t \in RiskTypes} : b >= -colreg_limit /\ b <= TwoPi}

InitColreg ==
    \E c \in ClassificationSet :
        \E alpha \in AlphaGrid(c), beta \in BetaGrid(c) :
            /\ call = [fn |-> "determine_colreg", alpha |-> alpha, beta |-> beta,
                        classification |-> c, returned |-> FALSE, out |-> "none"]
            /\ MachineIdle

CallDetermineColreg ==
    /\ call.fn = "determine_colreg"
    /\ ~call.returned
    /\ call' = [call EXCEPT !.returned = TRUE,
                            !.out = classify(call.alpha, call.beta, call.classification)]
    /\ UNCHANGED machineVars

NextColreg == CallDetermineColreg

SpecColreg == InitColreg /\ [][NextColreg]_vars

(***************************************************************************)
(* Claims about determine_colreg (specification SpecColreg)                *)
(***************************************************************************)
RuleOrder ==
    <<OVERTAKING_STAND_ON, OVERTAKING_GIVE_WAY, HEAD_ON, CROSSING_GIVE_WAY,
      CROSSING_STAND_ON>>

RuleHolds(type, alpha, beta, c) ==
    CASE type = OVERTAKING_STAND_ON ->
            cond_overtaking_stand_on(alpha, beta, c.theta13_criteria, c.theta15)
      [] type = OVERTAKING_GIVE_WAY ->
            cond_overtaking_give_way(alpha, beta, c.theta13_criteria, c.theta15)
      [] type = HEAD_ON ->
            cond_head_on(alpha, beta, c.theta14_criteria)
      [] type = CROSSING_GIVE_WAY ->
            cond_crossing_give_way(alpha, beta, c.theta15_criteria, c.theta15)
      [] type = CROSSING_STAND_ON ->
            cond_crossing_stand_on(alpha, beta, c.theta15_criteria, c.theta15)

FirstRule(alpha, beta, c) ==
    LET holding == {i \in 1..5 : RuleHolds(RuleOrder[i], alpha, beta, c)}
    IN  IF holding = {} THEN NO_RISK_COLLISION
        ELSE RuleOrder[CHOOSE i \in holding : \A j \in holding : i <= j]

ColregReturned == call.fn = "determine_colreg" /\ call.returned
ColregInDomain ==
    /\ call.alpha >= -Pi /\ call.alpha < Pi
    /\ call.beta >= 0 /\ call.beta < TwoPi
CallRuleHolds(type) == RuleHolds(type, call.alpha, call.beta, call.classification)

\* C6: determine_colreg returns the type of the first rule, in the order
\* OVERTAKING_STAND_ON, OVERTAKING_GIVE_WAY, HEAD_ON, CROSSING_GIVE_WAY,
\* CROSSING_STAND_ON, whose condition holds, and NO_RISK_COLLISION when none holds;
\* alpha = 0, beta = 0 under 0.087, 0.087, 1.22, [2.97, 3.40] gives HEAD_ON.
C6_FirstRuleWins ==
    ColregReturned =>
        /\ call.out = FirstRule(call.alpha, call.beta, call.classification)
        /\ (call.alpha = 0 /\ call.beta = 0 /\ call.classification = ClassificationNarrow
                => call.out = HEAD_ON)

\* C6 witness: head-on is returned for a pair that also satisfies the condition
\* of crossing give-way, a rule tried later.
C6_Witness ==
    /\ ColregReturned
    /\ call.out = HEAD_ON
    /\ CallRuleHolds(CROSSING_GIVE_WAY)

\* C7 as claimed: for alpha in [-pi, pi) and beta in [0, 2*pi) the conditions of two
\* different rules never hold together.
C7_MutuallyExclusive ==
    (ColregReturned /\ ColregInDomain) =>
        Cardinality({t \in RiskTypes : CallRuleHolds(t)}) <= 1

\* C7 amended: for alpha in [-pi, pi) and beta in [0, 2*pi) the conditions of the
\* two overtaking rules never hold together, neither overtaking rule holds together
\* with head-on, overtaking stand-on never with crossing give-way and overtaking
\* give-way never with crossing stand-on; where other rules overlap the result is
\* the rule tried first.
C7_ExclusivePairs ==
    (ColregReturned /\ ColregInDomain) =>
        /\ ~(CallRuleHolds(OVERTAKING_STAND_ON) /\ CallRuleHolds(OVERTAKING_GIVE_WAY))
        /\ ~(CallRuleHolds(OVERTAKING_STAND_ON) /\ CallRuleHolds(HEAD_ON))
        /\ ~(CallRuleHolds(OVERTAKING_GIVE_WAY) /\ CallRuleHolds(HEAD_ON))
        /\ ~(CallRuleHolds(OVERTAKING_STAND_ON) /\ CallRuleHolds(CROSSING_GIVE_WAY))
        /\ ~(CallRuleHolds(OVERTAKING_GIVE_WAY) /\ CallRuleHolds(CROSSING_STAND_ON))
        /\ call.out = FirstRule(call.alpha, call.beta, call.classification)

\* C7 witness: both crossing conditions hold for one pair, classified as crossing
\* give-way.
C7_Witness ==
    /\ ColregReturned /\ ColregInDomain
    /\ CallRuleHolds(CROSSING_GIVE_WAY) /\ CallRuleHolds(CROSSING_STAND_ON)
    /\ call.out = CROSSING_GIVE_WAY

\* C8: for each type other than NO_RISK_COLLISION the pair (alpha, beta) in the
\* middle of the threshold ranges of its rule is classified as that type.
C8_MidpointsClassified ==
    ColregReturned =>
        \A t \in RiskTypes :
            (/\ call.alpha = MidPair(t, call.classification).alpha
             /\ call.beta = MidPair(t, call.classification).beta) => call.out = t

\* C8 witness: the midpoint pair of the last rule, crossing stand-on, has been
\* classified.
C8_Witness ==
    /\ ColregReturned
    /\ call.alpha = MidPair(CROSSING_STAND_ON, call.classification).alpha
    /\ call.beta = MidPair(CROSSING_STAND_ON, call.classification).beta
    /\ call.out = CROSSING_STAND_ON

(***************************************************************************)
(* The solver on a grid of geometries (specification SpecSolver)           *)
(***************************************************************************)
SolverRange == 5
SolverOffsets == {10 * k : k \in -SolverRange..SolverRange}

\* Reference points: on the equator side (one unit of longitude per metre) and at 45
\* degrees north (two units of longitude per metre); own ship at or off the reference.
SolverFrames ==
    {[lat_lon0 |-> GeoPosition(0, 0), own_ship_position |-> GeoPosition(0, 0)],
     [lat_lon0 |-> GeoPosition(PiGeo \div 4, 1000),
      own_ship_position |-> flat2llh(10, -20, PiGeo \div 4, 1000)]}
SolverCogs == {0, HalfPi, 40000}
SolverBetas == {-500, 0, 7854, HalfPi, Pi, 3 * HalfPi}
SolverVectorLengths == {30, 50}

InitSolver ==
    \E frame \in SolverFrames, n_2 \in SolverOffsets, e_2 \in SolverOffsets,
       own_ship_cog \in SolverCogs, desired_beta \in SolverBetas,
       v_r \in SolverVectorLengths, type \in RiskTypes, c \in ClassificationSet :
        /\ call = [fn |-> "find_start_position_target_ship",
                    own_ship_position |-> frame.own_ship_position,
                    lat_lon0 |-> frame.lat_lon0,
                    own_ship_cog |-> own_ship_cog,
                    target_ship_position_future |->
                        flat2llh(n_2, e_2, frame.lat_lon0.lat, frame.lat_lon0.lon),
                    target_ship_vector_length |-> v_r,
                    desired_beta |-> desired_beta,
                    desired_encounter_type |-> type,
                    classification |-> c,
                    returned |-> FALSE,
                    out |-> "none"]
        /\ MachineIdle

CallFindStartPosition ==
    /\ call.fn = "find_start_position_target_ship"
    /\ ~call.returned
    /\ call' = [call EXCEPT
                  !.returned = TRUE,
                  !.out = find_start_position_target_ship(
                              call.own_ship_position, call.lat_lon0, call.own_ship_cog,
                              call.target_ship_position_future,
                              call.target_ship_vector_length, call.desired_beta,
                              call.desired_encounter_type, call.classification)]
    /\ UNCHANGED machineVars

NextSolver == CallFindStartPosition

SpecSolver == InitSolver /\ [][NextSolver]_vars

(***************************************************************************)
(* Claims about find_start_position_target_ship (specification SpecSolver) *)
(***************************************************************************)
SolverCalled == call.fn = "find_start_position_target_ship" /\ ~call.returned
SolverReturned == call.fn = "find_start_position_target_ship" /\ call.returned

CallQuadratic ==
    start_position_quadratic(call.own_ship_position, call.lat_lon0, call.own_ship_cog,
                             call.target_ship_position_future,
                             call.target_ship_vector_length, call.desired_beta)
CallRoot(sign) ==
    start_position_root(CallQuadratic, sign, call.own_ship_position, call.lat_lon0,
                        call.own_ship_cog, call.target_ship_position_future,
                        call.classification)

\* The distance of two angles on the circle, in [0, pi].
CircularDistance(x, y) ==
    LET d == (x - y) % TwoPi
    IN  IF d <= Pi THEN d ELSE TwoPi - d

\* The type and the beta of a start position, classified afresh from the position.
Reclassified(position) ==
    LET cog == calculate_ship_cog(position, call.target_ship_position_future, call.lat_lon0)
        bearing == calculate_relative_bearing(call.own_ship_position, call.own_ship_cog,
                                              position, cog, call.lat_lon0)
    IN  [type |-> classify(bearing.alpha, bearing.beta, call.classification),
         beta |-> bearing.beta]

Qualifies(position) ==
    /\ Reclassified(position).type = call.desired_encounter_type
    /\ CircularDistance(Reclassified(position).beta, call.desired_beta) < start_position_limit

\* C9: a call whose discriminant is <= 0 (zero included) returns found = FALSE with the
\* target future position it was given, and leaves the caller's arguments, the target
\* future position among them, as they were.
C9_NonPositiveDiscriminantFallsBack ==
    [][(SolverCalled /\ CallQuadratic.discriminant <= 0)
         => /\ call'.returned
            /\ call'.out = [position |-> call.target_ship_position_future,
                            found |-> FALSE]
            /\ call'.target_ship_position_future = call.target_ship_position_future
            /\ [call' EXCEPT !.returned = FALSE, !.out = "none"] = call]_vars

\* C9 witness: a call with a discriminant of exactly zero whose tangent point would
\* have qualified has returned the fallback.
C9_Witness ==
    /\ SolverReturned
    /\ CallQuadratic.discriminant = 0
    /\ Qualifies(CallRoot(1).position)
    /\ call.out = [position |-> call.target_ship_position_future, found |-> FALSE]

\* C10: with a positive discriminant the result is root s_1 if it classifies as the
\* desired type with beta within 0.01 rad of the desired beta, else root s_2 under the
\* same two conditions, else the target future position with found = FALSE; so a found
\* position classifies as the desired type with beta within 0.01 rad.
C10_FirstQualifyingRoot ==
    (SolverReturned /\ CallQuadratic.discriminant > 0)
      => /\ call.out =
              IF Qualifies(CallRoot(1).position)
              THEN [position |-> CallRoot(1).position, found |-> TRUE]
              ELSE IF Qualifies(CallRoot(-1).position)
              THEN [position |-> CallRoot(-1).position, found |-> TRUE]
              ELSE [position |-> call.target_ship_position_future, found |-> FALSE]
         /\ call.out.found => Qualifies(call.out.position)

\* C10 witness: both roots qualify, they are different positions, and s_1 is returned.
C10_Witness ==
    /\ SolverReturned
    /\ CallQuadratic.discriminant > 0
    /\ Qualifies(CallRoot(1).position)
    /\ Qualifies(CallRoot(-1).position)
    /\ CallRoot(1).position # CallRoot(-1).position
    /\ call.out = [position |-> CallRoot(1).position, found |-> TRUE]

\* Further cases of the selection that the grid reaches.
SolverSecondRootReturned ==
    /\ SolverReturned
    /\ CallQuadratic.discriminant > 0
    /\ ~Qualifies(CallRoot(1).position)
    /\ call.out = [position |-> CallRoot(-1).position, found |-> TRUE]
SolverTypeMatchesBetaFails ==
    /\ SolverReturned
    /\ CallQuadratic.discriminant > 0
    /\ CallRoot(1).colreg_state = call.desired_encounter_type
    /\ CallRoot(-1).colreg_state # call.desired_encounter_type
    /\ ~call.out.found

(***************************************************************************)
(* generate_encounter as a state machine (specification Spec)              *)
(***************************************************************************)
\* Settings, in the units of the model: seconds, metres, ratios of 1 / RatioScale.
RelativeSpeedSetting ==
    [overtaking_stand_on |-> <<150, 200>>, overtaking_give_way |-> <<25, 75>>,
     head_on |-> <<50, 200>>, crossing_give_way |-> <<50, 200>>,
     crossing_stand_on |-> <<50, 200>>]

Settings(disable_land_check) ==
    [classification |-> ClassificationNarrow, vector_range |-> <<20, 40>>,
     situation_length |-> 60, max_meeting_distance |-> 20, evolve_time |-> 10,
     disable_land_check |-> disable_land_check]

\* Own ship at 45 degrees north on a northward track, at the given speed.
OwnShip(sog) ==
    LET position == GeoPosition(PiGeo \div 4, 1000)
    IN  [static |-> [id |-> 0, name |-> <<"OS", 0>>, sog_max |-> Some(500)],
         initial |-> Initial(position, sog, 0, 0, UNDER_WAY_USING_ENGINE),
         waypoints |-> <<Waypoint(position),
                         Waypoint(flat2llh(200, 0, position.lat, position.lon))>>]

\* Two templates: one named and fast, one without a name and slow, its maximum speed of
\* 0.66 m/s not a multiple of 0.1 m/s.
TargetShipsStatic ==
    <<[id |-> 1, name |-> <<"template", 1>>, sog_max |-> Some(1000)],
      [id |-> 2, name |-> None, sog_max |-> Some(66)]>>

\* What the request fixes: nothing, everything, or a range for beta.
DefaultProfiles ==
    {[beta_default |-> [kind |-> "None"], relative_sog_default |-> None,
      vector_time_default |-> None],
     [beta_default |-> [kind |-> "float", value |-> 0],
      relative_sog_default |-> Some(100), vector_time_default |-> Some(30)],
     [beta_default |-> [kind |-> "list", value |-> <<HalfPi - 500, HalfPi + 500>>],
      relative_sog_default |-> None, vector_time_default |-> None]}

Request(desired_encounter_type, profile, disable_land_check, own_ship_sog, target_ships_static) ==
    [desired_encounter_type |-> desired_encounter_type,
     own_ship |-> OwnShip(own_ship_sog),
     target_ships_static |-> target_ships_static,
     encounter_number |-> 3,
     beta_default |-> profile.beta_default,
     relative_sog_default |-> profile.relative_sog_default,
     vector_time_default |-> profile.vector_time_default,
     settings |-> Settings(disable_land_check)]

Requests ==
    {Request(type, profile, disable_land_check, 100, TargetShipsStatic) :
         type \in EncounterType, profile \in DefaultProfiles, disable_land_check \in BOOLEAN}
    \cup {Request(HEAD_ON, profile, TRUE, 0, TargetShipsStatic) : profile \in DefaultProfiles}
    \cup {Request(HEAD_ON, profile, TRUE, 100, <<>>) : profile \in DefaultProfiles}

\* The state at the call of decide_target_ship: the locals assigned so far, the others
\* unbound (None).
InitialLocals(own_ship) ==
    [encounter_found |-> FALSE,
     target_ship_id |-> 10,
     outer_counter |-> 0,
     inner_counter |-> 0,
     target_ship_initial_position |-> own_ship.initial.position,
     target_ship_sog |-> 0,
     target_ship_cog |-> 0,
     lat_lon0 |-> GeoPosition(own_ship.initial.position.lat,
                              own_ship.initial.position.lon),
     target_ship_static |-> None,
     target_ship_static_object |-> NewObject,
     vector_time |-> None,
     beta |-> None,
     own_ship_cog |-> None,
     own_ship_position_future |-> None,
     target_ship_position_future |-> None]

\* Nothing called, drawn or attempted yet.
InitialHistory ==
    [solver_calls |-> 0, draws |-> 0, land_calls |-> 0, attempts |-> <<>>,
     last_attempt |-> None]

Init ==
    /\ call = [fn |-> "generate_encounter"]
    /\ pc = "decide_target_ship"
    /\ request \in Requests
    /\ relative_speed = RelativeSpeedSetting
    /\ loc = InitialLocals(request.own_ship)
    /\ hist = InitialHistory
    /\ result = None

\* target_ship_static = decide_target_ship(target_ships_static); random.randint(1, 0)
\* raises a ValueError when the list is empty.
DecideTargetShipWith(target_ship_to_use) ==
    /\ pc = "decide_target_ship"
    /\ IF Len(request.target_ships_static) = 0
       THEN /\ pc' = "raised"
            /\ result' = [raised |-> "ValueError"]
            /\ UNCHANGED <<loc, hist>>
       ELSE /\ loc' = [loc EXCEPT !.target_ship_static =
                           decide_target_ship(request.target_ships_static,
                                              target_ship_to_use),
                                   !.target_ship_static_object =
                           decide_target_ship_object(target_ship_to_use)]
            /\ hist' = [hist EXCEPT !.draws = @ + 1]
            /\ pc' = "outer_loop"
            /\ UNCHANGED result
    /\ UNCHANGED <<request, relative_speed>>

DecideTargetShip ==
    /\ \E target_ship_to_use \in
             IF Len(request.target_ships_static) = 0 THEN {0}
             ELSE 1..Len(request.target_ships_static) :
          DecideTargetShipWith(target_ship_to_use)
    /\ UNCHANGED call

\* One round of the outer loop up to the inner loop: vector_time, beta, own ship's
\* course and future position, the target ship's future position.
OuterIterationWith(u_vector_time, u_beta, u_angle, u_distance) ==
    /\ pc = "outer_loop"
    /\ outer_loop_continues(loc.encounter_found, loc.outer_counter)
    /\    LET settings == request.settings
              own_ship == request.own_ship
              vector_time ==
                  IF request.vector_time_default = None
                  THEN settings.vector_range[1]
                       + Scaled(u_vector_time,
                                settings.vector_range[2] - settings.vector_range[1])
                  ELSE request.vector_time_default[1]
              beta ==
                  IF request.beta_default.kind = "None"
                  THEN assign_beta(request.desired_encounter_type,
                                   settings.classification, u_beta)
                  ELSE IF request.beta_default.kind = "list"
                  THEN assign_beta_from_list(request.beta_default.value, u_beta)
                  ELSE request.beta_default.value
              own_ship_cog ==
                  calculate_bearing_between_waypoints(own_ship.waypoints[1].position,
                                                      own_ship.waypoints[2].position)
              own_ship_position_future ==
                  calculate_position_along_track_using_waypoints(
                      own_ship.waypoints, own_ship.initial.sog, vector_time)
              target_ship_position_future ==
                  assign_future_position_to_target_ship(
                      own_ship_position_future, loc.lat_lon0,
                      settings.max_meeting_distance, u_angle, u_distance)
          IN  /\ loc' = [loc EXCEPT
                           !.outer_counter = @ + 1,
                           !.inner_counter = 0,
                           !.vector_time = vector_time,
                           !.beta = beta,
                           !.own_ship_cog = own_ship_cog,
                           !.own_ship_position_future = own_ship_position_future,
                           !.target_ship_position_future = target_ship_position_future]
              /\ hist' = [hist EXCEPT
                            !.draws = @ + 2
                                + (IF request.vector_time_default = None THEN 1 ELSE 0)
                                + (IF request.beta_default.kind = "float" THEN 0 ELSE 1)]
    /\ pc' = "inner_loop"
    /\ UNCHANGED <<request, relative_speed, result>>

OuterIteration ==
    /\ \E u_vector_time \in UniformSamples, u_beta \in UniformSamples,
          u_angle \in UniformSamples, u_distance \in UniformSamples :
          OuterIterationWith(u_vector_time, u_beta, u_angle, u_distance)
    /\ UNCHANGED call

\* One round of the inner loop: an attempt, and the test of the loop that follows it.
InnerIterationWith(u_sog) ==
    /\ pc = "inner_loop"
    /\ inner_loop_continues(loc.encounter_found, loc.inner_counter)
    /\ \E a \in {attempt(request, relative_speed, loc, u_sog)} :
          LET next_loc == [loc EXCEPT
                             !.inner_counter = @ + 1,
                             !.target_ship_sog = a.target_ship_sog,
                             !.target_ship_initial_position = a.target_ship_initial_position,
                             !.target_ship_cog = a.target_ship_cog,
                             !.encounter_found = a.encounter_found]
          IN  /\ relative_speed' = a.relative_sog_setting
              /\ loc' = next_loc
              /\ hist' = [hist EXCEPT
                            !.solver_calls = @ + (IF a.solver_called THEN 1 ELSE 0),
                            !.draws = @ + a.draws,
                            !.land_calls = @ + (IF a.land_called THEN 1 ELSE 0),
                            !.attempts = Append(@, a.encounter_found),
                            !.last_attempt = Some(a)]
              /\ IF a.raised # ""
                 THEN /\ pc' = "raised"
                      /\ result' = [raised |-> a.raised]
                 ELSE /\ pc' = IF inner_loop_continues(next_loc.encounter_found,
                                                       next_loc.inner_counter)
                               THEN "inner_loop" ELSE "outer_loop"
                      /\ UNCHANGED result
    /\ UNCHANGED request

InnerIteration ==
    /\ \E u_sog \in UniformSamples : InnerIterationWith(u_sog)
    /\ UNCHANGED call

\* if encounter_found: ... return target_ship, encounter_found
ReturnFound ==
    /\ pc = "outer_loop"
    /\ ~outer_loop_continues(loc.encounter_found, loc.outer_counter)
    /\ loc.encounter_found
    /\ result' = [raised |-> "",
                  target_ship |->
                      found_target_ship(
                          loc.target_ship_static, loc.target_ship_id,
                          request.encounter_number, loc.target_ship_initial_position,
                          loc.target_ship_sog, loc.target_ship_cog, loc.lat_lon0,
                          request.settings.situation_length),
                  encounter_found |-> loc.encounter_found]
    /\ loc' = [loc EXCEPT
                 !.target_ship_static =
                     [@ EXCEPT !.id = loc.target_ship_id,
                               !.name = <<"target_ship", request.encounter_number>>],
                 !.target_ship_id = @ + 1]
    /\ request' = [request EXCEPT !.target_ships_static =
                       target_ships_static_after(@, loc.target_ship_static_object,
                                                 result'.target_ship.static)]
    /\ pc' = "done"
    /\ UNCHANGED <<call, relative_speed, hist>>

\* else: ... return target_ship, encounter_found
ReturnNotFound ==
    /\ pc = "outer_loop"
    /\ ~outer_loop_continues(loc.encounter_found, loc.outer_counter)
    /\ ~loc.encounter_found
    /\ result' = [raised |-> "",
                  target_ship |-> not_found_target_ship(loc.target_ship_static,
                                                        request.own_ship),
                  encounter_found |-> loc.encounter_found]
    /\ request' = [request EXCEPT !.target_ships_static =
                       target_ships_static_after(@, loc.target_ship_static_object,
                                                 result'.target_ship.static)]
    /\ pc' = "done"
    /\ UNCHANGED <<call, relative_speed, loc, hist>>

Next ==
    \/ DecideTargetShip
    \/ OuterIteration
    \/ InnerIteration
    \/ ReturnFound
    \/ ReturnNotFound

Spec == Init /\ [][Next]_vars

(***************************************************************************)
(* generate_encounter: the retry budget, the test of success, the order of *)
(* the attempts and the two ways of returning                              *)
(***************************************************************************)
Returned == pc = "done"
ReturnedFound == Returned /\ result.encounter_found
ReturnedNotFound == Returned /\ ~result.encounter_found
Raised == pc = "raised"
LastAttempt == hist.last_attempt[1]

\* The solver applied to the values the locals hold after an attempt.
SolverOnLocals ==
    find_start_position_target_ship(
        request.own_ship.initial.position, loc.lat_lon0, loc.own_ship_cog,
        loc.target_ship_position_future,
        RoundDiv(loc.target_ship_sog * loc.vector_time, SogScale), loc.beta,
        request.desired_encounter_type, request.settings.classification)

\* check_encounter_evolvement applied to the values the locals hold after an attempt.
EvolvementOnLocals ==
    check_encounter_evolvement(
        request.own_ship, loc.own_ship_cog, request.own_ship.initial.position,
        loc.lat_lon0, loc.target_ship_sog, loc.target_ship_cog,
        loc.target_ship_position_future, request.desired_encounter_type,
        request.settings)

\* C1: one call of generate_encounter makes at most 5 rounds of the outer loop, at most
\* 5 rounds of the inner loop in each and so at most 25 calls of
\* find_start_position_target_ship, whatever the request and the settings; once the
\* rounds are used up the next step is the return.
C1_BoundedRetries ==
    /\ [](/\ loc.outer_counter <= 5
          /\ loc.inner_counter <= 5
          /\ Len(hist.attempts) <= 5 * loc.outer_counter
          /\ hist.solver_calls <= Len(hist.attempts)
          /\ hist.solver_calls <= 25)
    /\ [][(pc = "outer_loop" /\ loc.outer_counter = 5) => pc' = "done"]_vars

\* C1: a call that returned after 25 calls of the solver.
C1_Witness == Returned /\ hist.solver_calls = 25

\* C2: an encounter counts as found only if, in the attempt made last, the solver
\* reported a start position, check_encounter_evolvement held for it, and
\* disable_land_check is set or path_crosses_land returned false; with
\* disable_land_check set path_crosses_land is never called.
C2_FoundOnlyIfAllChecksPass ==
    /\ loc.encounter_found =>
           /\ LastAttempt.solver_called
           /\ SolverOnLocals.found
           /\ SolverOnLocals.position = loc.target_ship_initial_position
           /\ EvolvementOnLocals
           /\ \/ request.settings.disable_land_check
              \/ path_crosses_land(loc.target_ship_initial_position, loc.target_ship_sog,
                                   loc.target_ship_cog, loc.lat_lon0,
                                   request.settings.situation_length) = "False"
    /\ Returned => result.encounter_found = loc.encounter_found
    /\ request.settings.disable_land_check => hist.land_calls = 0

\* C2: a call with the land check disabled that returned an encounter.
C2_Witness == ReturnedFound /\ request.settings.disable_land_check

\* C2: an attempt whose start position was found and whose evolvement check failed.
C2_PositionFoundEvolvementFailed ==
    /\ hist.last_attempt # None
    /\ LastAttempt.position_found
    /\ ~LastAttempt.encounter_ok

\* C3: every attempt but the last one made has failed, and once an attempt has set
\* encounter_found nothing more is drawn, no attempt is made and the solver is not called.
C3_StopsAtFirstSuccess ==
    /\ [](\A k \in 1..(Len(hist.attempts) - 1) : ~hist.attempts[k])
    /\ [][loc.encounter_found =>
              /\ hist'.draws = hist.draws
              /\ hist'.attempts = hist.attempts
              /\ hist'.solver_calls = hist.solver_calls]_vars

\* C3: a call that returned an encounter found after failed attempts, with rounds left.
C3_Witness ==
    /\ ReturnedFound
    /\ Len(hist.attempts) >= 2
    /\ loc.inner_counter < 5
    /\ loc.outer_counter < 5

\* C4: the target ship returned with found = true holds the values of the attempt made
\* last: the start position the solver returned in it, its clamped speed, the course from
\* the start position to the future position as cog and heading, the status "under way
\* using engine", the name target_ship_<encounter_number>, and two waypoints, the start
\* position and the position after situation_length at that speed and course.
C4_FoundShipCarriesLastAttempt ==
    ReturnedFound =>
        LET target_ship == result.target_ship
            start == LastAttempt.start_position_target_ship
            cog == calculate_ship_cog(start, loc.target_ship_position_future, loc.lat_lon0)
        IN  /\ result.raised = ""
            /\ LastAttempt.solver_called
            /\ LastAttempt.position_found
            /\ start = SolverOnLocals.position
            /\ target_ship.initial.position = start
            /\ target_ship.initial.sog = LastAttempt.target_ship_sog
            /\ LastAttempt.target_ship_vector_length
                   = RoundDiv(target_ship.initial.sog * loc.vector_time, SogScale)
            /\ target_ship.initial.cog = cog
            /\ target_ship.initial.heading = cog
            /\ target_ship.initial.nav_status = UNDER_WAY_USING_ENGINE
            /\ target_ship.static.name = <<"target_ship", request.encounter_number>>
            /\ Len(target_ship.waypoints) = 2
            /\ target_ship.waypoints[1].position = start
            /\ target_ship.waypoints[2].position
                   = calculate_position_at_certain_time(
                         start, loc.lat_lon0, LastAttempt.target_ship_sog, cog,
                         request.settings.situation_length)

\* C4: an encounter returned from an attempt that followed failed ones, on a course
\* other than north.
C4_Witness ==
    /\ ReturnedFound
    /\ Len(hist.attempts) >= 2
    /\ result.target_ship.initial.cog # 0

GeoRange == 3
GeoOffsets == {100000 * k : k \in -GeoRange..GeoRange}

\* Reference points: on the equator, at 45 degrees north and at 60 degrees south; far
\* from the antimeridian, 50 km of longitude short of it on either side, and on it.
GeoReferences ==
    {GeoPosition(lat_0, lon_0) :
         lat_0 \in {0, PiGeo \div 4, -(PiGeo \div 3)},
         lon_0 \in {0, PiGeo - 50000, -PiGeo + 50000, PiGeo, -PiGeo}}

\* Angles around the multiples of pi / 2, from -SsaRange * pi / 2 to SsaRange * pi / 2.
SsaRange == 8
SsaAngles ==
    {k * (PiGeo \div 2) + d : k \in -SsaRange..SsaRange, d \in {-1, 0, 1}}

\* Positions a whole number of metres off a reference point near the antimeridian or
\* far from it, the longitude within [-pi, pi]; speeds of 0, 5 and 10 m/s; time spans
\* of one and ten minutes, forwards and backwards.
TrackReferences ==
    {GeoPosition(lat_0, lon_0) :
         lat_0 \in {0, PiGeo \div 4},
         lon_0 \in {0, PiGeo - 2000, -PiGeo + 2000}}
TrackRange == 1
TrackOffsets == {1000 * k : k \in -TrackRange..TrackRange}
TrackPositions(lat_lon0) ==
    {position \in {GeoPosition(lat_lon0.lat + n, lat_lon0.lon + e * lon_factor(lat_lon0.lat)) :
                       n \in TrackOffsets, e \in TrackOffsets} :
         position.lon >= -PiGeo /\ position.lon <= PiGeo}
TrackSogs == {0, 500, 1000}
TrackCogs == {0, 7854, HalfPi, Pi, 3 * HalfPi}
TrackTimes == {60, 600, -600}

InitGeo ==
    /\ \/ \E reference \in GeoReferences, x_n \in GeoOffsets, y_n \in GeoOffsets :
              call = [fn |-> "flat2llh", x_n |-> x_n, y_n |-> y_n,
                      lat_0 |-> reference.lat, lon_0 |-> reference.lon,
                      returned |-> FALSE, out |-> None, back |-> None]
       \/ \E angle \in SsaAngles :
              call = [fn |-> "ssa", angle |-> angle, returned |-> FALSE, out |-> None]
       \/ \E lat_lon0 \in TrackReferences, sog \in TrackSogs, cog \in TrackCogs,
             delta_time \in TrackTimes :
              \E position \in TrackPositions(lat_lon0) :
                  call = [fn |-> "calculate_position_at_certain_time",
                          position |-> position, lat_lon0 |-> lat_lon0, sog |-> sog,
                          cog |-> cog, delta_time |-> delta_time,
                          returned |-> FALSE, out |-> None, back |-> None]
    /\ MachineIdle

CallSsa ==
    /\ call.fn = "ssa"
    /\ ~call.returned
    /\ call' = [call EXCEPT !.returned = TRUE, !.out = Some(ssa(call.angle))]
    /\ UNCHANGED machineVars

CallFlat2llh ==
    /\ call.fn = "flat2llh"
    /\ ~call.returned
    /\ call' = [call EXCEPT
                  !.returned = TRUE,
                  !.out = Some(flat2llh(call.x_n, call.y_n, call.lat_0, call.lon_0))]
    /\ UNCHANGED machineVars

\* llh2flat applied to what flat2llh returned, with the same reference point.
CallLlh2flat ==
    /\ call.fn = "flat2llh"
    /\ call.returned
    /\ call.back = None
    /\ call' = [call EXCEPT
                  !.back = Some(llh2flat(call.out[1].lat, call.out[1].lon,
                                         call.lat_0, call.lon_0))]
    /\ UNCHANGED machineVars

CallPositionAtCertainTime ==
    /\ call.fn = "calculate_position_at_certain_time"
    /\ ~call.returned
    /\ call' = [call EXCEPT
                  !.returned = TRUE,
                  !.out = Some(calculate_position_at_certain_time(
                                   call.position, call.lat_lon0, call.sog, call.cog,
                                   call.delta_time))]
    /\ UNCHANGED machineVars

\* The position returned propagated by -delta_time, the other arguments the same.
CallPositionAtCertainTimeBack ==
    /\ call.fn = "calculate_position_at_certain_time"
    /\ call.returned
    /\ call.back = None
    /\ call' = [call EXCEPT
                  !.back = Some(calculate_position_at_certain_time(
                                    call.out[1], call.lat_lon0, call.sog, call.cog,
                                    -call.delta_time))]
    /\ UNCHANGED machineVars

NextGeo ==
    \/ CallSsa
    \/ CallFlat2llh
    \/ CallLlh2flat
    \/ CallPositionAtCertainTime
    \/ CallPositionAtCertainTimeBack

SpecGeo == InitGeo /\ [][NextGeo]_vars

(***************************************************************************)
(* Claims about flat2llh, llh2flat, ssa and                                *)
(* calculate_position_at_certain_time (specification SpecGeo)              *)
(***************************************************************************)
RoundTripDone == call.fn = "flat2llh" /\ call.returned /\ call.back # None
SsaReturned == call.fn = "ssa" /\ call.returned
Flat2llhReturned == call.fn = "flat2llh" /\ call.returned
PropagatedBack ==
    call.fn = "calculate_position_at_certain_time" /\ call.returned /\ call.back # None

\* C11: llh2flat applied to the result of flat2llh, with the same reference point,
\* returns the offset (north, east) that flat2llh was given, also for a reference
\* longitude at or next to +pi or -pi.
C11_RoundTrip ==
    RoundTripDone => call.back[1] = [north |-> call.x_n, east |-> call.y_n]

\* C11: the round trip returns the offset whenever lon_0 plus the offset in longitude
\* stays within [-pi, pi), where ssa leaves it as it is.
C11_RoundTripAwayFromAntimeridian ==
    (/\ RoundTripDone
     /\ call.lon_0 + call.y_n * lon_factor(call.lat_0) >= -PiGeo
     /\ call.lon_0 + call.y_n * lon_factor(call.lat_0) < PiGeo)
        => call.back[1] = [north |-> call.x_n, east |-> call.y_n]

\* C11: a round trip from a reference point 50 km short of the antimeridian and 100 km
\* to the east, which comes back with an east offset a full circle to the west.
C11_AntimeridianCrossed ==
    /\ RoundTripDone
    /\ call.lon_0 = PiGeo - 50000
    /\ call.y_n = 100000
    /\ call.back[1].north = call.x_n
    /\ call.back[1].east = call.y_n - (2 * PiGeo) \div lon_factor(call.lat_0)

\* C12, as first stated: a position propagated by delta_time and the result propagated
\* by -delta_time, with the same reference point, speed and course, is the position
\* again.
C12_PropagationReturnsPosition ==
    PropagatedBack => call.back[1] = call.position

\* C12, amended: the position comes back with its latitude, and with its longitude
\* brought into [-pi, pi) as ssa does, so that a longitude of pi comes back as -pi.
C12_PropagationReturnsNormalisedPosition ==
    PropagatedBack =>
        /\ call.back[1].lat = call.position.lat
        /\ call.back[1].lon = ssa(call.position.lon)

\* C12: a ship that moved, crossed the antimeridian on the way out and came back.
C12_Witness ==
    /\ PropagatedBack
    /\ call.out[1] # call.position
    /\ call.position.lon > PiGeo \div 2
    /\ call.out[1].lon < -(PiGeo \div 2)
    /\ call.back[1] = call.position

\* C12: a position on the antimeridian given as pi comes back as -pi.
C12_AntimeridianAsPi ==
    /\ PropagatedBack
    /\ call.position.lon = PiGeo
    /\ call.back[1].lon = -PiGeo

\* C13, as first stated: ssa returns the angle congruent to its argument modulo 2 * pi
\* in (-pi, pi], and every longitude of flat2llh lies in (-pi, pi].
C13_SsaRangeOpenBelow ==
    /\ SsaReturned =>
           /\ call.out[1] > -PiGeo
           /\ call.out[1] <= PiGeo
           /\ (call.out[1] - call.angle) % (2 * PiGeo) = 0
    /\ Flat2llhReturned =>
           /\ call.out[1].lon > -PiGeo
           /\ call.out[1].lon <= PiGeo

\* C13, amended: ssa returns the angle congruent to its argument modulo 2 * pi in
\* [-pi, pi), so that pi, 3 * pi, ... give -pi and pi is never returned, and every
\* longitude of flat2llh lies in [-pi, pi).
C13_SsaRangeOpenAbove ==
    /\ SsaReturned =>
           /\ call.out[1] >= -PiGeo
           /\ call.out[1] < PiGeo
           /\ (call.out[1] - call.angle) % (2 * PiGeo) = 0
           /\ (call.angle % (2 * PiGeo) = PiGeo) => call.out[1] = -PiGeo
    /\ Flat2llhReturned =>
           /\ call.out[1].lon >= -PiGeo
           /\ call.out[1].lon < PiGeo

\* C13: ssa(3 * pi) returned -pi.
C13_Witness == SsaReturned /\ call.angle = 3 * PiGeo /\ call.out[1] = -PiGeo

\* C13: flat2llh returned the longitude -pi for a reference point at the longitude pi.
C13_LongitudeMinusPi ==
    /\ Flat2llhReturned
    /\ call.lon_0 = PiGeo
    /\ call.y_n = 0
    /\ call.out[1].lon = -PiGeo

(***************************************************************************)
(* generate_encounter called twice with equal arguments, the same settings *)
(* object and the random number generator seeded alike (specification      *)
(* SpecRerun)                                                              *)
(***************************************************************************)
\* A seed stands for the sequence of numbers random.uniform(0, 1) returns after it: the
\* SeedLength numbers of the seed, over and over.
SeedLength == 7
Seeds == [1..SeedLength -> UniformSamples]

\* The k-th number drawn after seeding.
DrawAt(k) == call.seed[((k - 1) % SeedLength) + 1]

\* random.randint(1, num_target_ships) from the number drawn.
RandintFrom(u, num_target_ships) == 1 + (u * num_target_ships) \div UniformSteps

InitRerun ==
    /\ \E seed \in Seeds :
           call = [fn |-> "generate_encounter", seed |-> seed, run |-> 1,
                   speeds |-> <<>>, first |-> None]
    /\ pc = "decide_target_ship"
    /\ request \in Requests
    /\ relative_speed = RelativeSpeedSetting
    /\ loc = InitialLocals(request.own_ship)
    /\ hist = InitialHistory
    /\ result = None

SeededDecideTargetShip ==
    /\ DecideTargetShipWith(
           IF Len(request.target_ships_static) = 0 THEN 0
           ELSE RandintFrom(DrawAt(hist.draws + 1), Len(request.target_ships_static)))
    /\ UNCHANGED call

\* The numbers are taken in the order of the calls: vector_time and beta when they are
\* drawn, then the angle and the distance of the meeting point.
SeededOuterIteration ==
    /\ \E drawn_vector_time \in {IF request.vector_time_default = None THEN 1 ELSE 0},
          drawn_beta \in {IF request.beta_default.kind = "float" THEN 0 ELSE 1} :
          OuterIterationWith(DrawAt(hist.draws + 1),
                             DrawAt(hist.draws + drawn_vector_time + 1),
                             DrawAt(hist.draws + drawn_vector_time + drawn_beta + 1),
                             DrawAt(hist.draws + drawn_vector_time + drawn_beta + 2))
    /\ UNCHANGED call

\* call.speeds keeps the target speed of every attempt of the call.
SeededInnerIteration ==
    /\ InnerIterationWith(DrawAt(hist.draws + 1))
    /\ call' = [call EXCEPT !.speeds = Append(@, loc'.target_ship_sog)]

\* The caller's loops call generate_encounter again with the arguments of the call that
\* returned and the same settings object; the generator is seeded as before the first call.
CallAgain ==
    /\ pc = "done"
    /\ call.run = 1
    /\ call' = [call EXCEPT
                  !.run = 2,
                  !.speeds = <<>>,
                  !.first = Some([result |-> result, attempts |-> hist.attempts,
                                  speeds |-> call.speeds,
                                  solver_calls |-> hist.solver_calls,
                                  draws |-> hist.draws])]
    /\ pc' = "decide_target_ship"
    /\ loc' = InitialLocals(request.own_ship)
    /\ hist' = InitialHistory
    /\ result' = None
    /\ UNCHANGED <<request, relative_speed>>

NextRerun ==
    \/ SeededDecideTargetShip
    \/ SeededOuterIteration
    \/ SeededInnerIteration
    \/ ReturnFound
    \/ ReturnNotFound
    \/ CallAgain

SpecRerun == InitRerun /\ [][NextRerun]_vars

\* C14: a second call of generate_encounter with equal arguments, the same settings
\* object and the same random numbers makes the attempts of the first call and returns
\* what the first call returned.
C14_RerunDeterministic ==
    (call.run = 2 /\ pc = "done") =>
        /\ result = call.first[1].result
        /\ hist.attempts = call.first[1].attempts
        /\ call.speeds = call.first[1].speeds
        /\ hist.solver_calls = call.first[1].solver_calls
        /\ hist.draws = call.first[1].draws

\* C14: the second call returns what the first returned whenever the first call left
\* the relative speed ranges of the settings as they were.
C14_RerunDeterministicOnEqualSettings ==
    (call.run = 2 /\ pc = "done" /\ relative_speed = RelativeSpeedSetting) =>
        /\ result = call.first[1].result
        /\ hist.attempts = call.first[1].attempts
        /\ call.speeds = call.first[1].speeds
        /\ hist.solver_calls = call.first[1].solver_calls
        /\ hist.draws = call.first[1].draws

(***************************************************************************)
(* The settings object across generate_encounter                           *)
(***************************************************************************)

\* The relative-speed ranges of the settings, by name.
RelativeSpeedFields == DOMAIN RelativeSpeedSetting

\* C15: the EncounterSettings object is read-only for the search: at every point of a
\* generate_encounter call, the calls of assign_sog_to_target_ship included, both bounds of
\* every relative-speed range equal their values before the call.
C15_SettingsReadOnly ==
    \A field \in RelativeSpeedFields :
        /\ relative_speed[field][1] = RelativeSpeedSetting[field][1]
        /\ relative_speed[field][2] = RelativeSpeedSetting[field][2]

\* C15, what the code does keep: the upper bound of every range and the ranges of the
\* encounter types that were not requested; the lower bound of the requested type's range
\* only ever moves up, and stays below its upper bound.
C15_OnlyRequestedLowerBoundMoves ==
    \A field \in RelativeSpeedFields :
        /\ relative_speed[field][2] = RelativeSpeedSetting[field][2]
        /\ relative_speed[field][1] >= RelativeSpeedSetting[field][1]
        /\ relative_speed[field][1] < relative_speed[field][2]
        /\ field # relative_sog_field(request.desired_encounter_type)
               => relative_speed[field] = RelativeSpeedSetting[field]

\* C15, the case: a call has returned after assign_sog_to_target_ship raised the lower bound
\* of the requested type's range in the settings.
C15_LowerBoundRaised ==
    /\ Returned
    /\ \E field \in RelativeSpeedFields :
           relative_speed[field][1] > RelativeSpeedSetting[field][1]

(***************************************************************************)
(* The ship records across generate_encounter                              *)
(***************************************************************************)

\* The elements of a sequence.
Elements(seq) == {seq[i] : i \in DOMAIN seq}

\* A call is between decide_target_ship and its return statement.
Searching == pc \in {"outer_loop", "inner_loop"}

\* C16: generate_encounter modifies neither the own-ship record nor any element of the list
\* target_ships_static: through a first call, its return and a second call on the same
\* list both are as they were passed, and the template a call works on is an element of
\* the list as it was passed, without the id or name an earlier encounter was given.
C16_InputsUnmodified ==
    /\ request.own_ship \in {OwnShip(100), OwnShip(0)}
    /\ request.target_ships_static \in {TargetShipsStatic, <<>>}
    /\ Searching => /\ loc.target_ship_static \in Elements(TargetShipsStatic)
                    /\ loc.target_ship_static_object = NewObject

\* C16, the case: the first call returned a target ship with its id and name assigned, and
\* the second call has drawn the same template.
C16_Witness ==
    /\ call.run = 2
    /\ Searching
    /\ call.first[1].result.encounter_found
    /\ call.first[1].result.target_ship.static.name = <<"target_ship", request.encounter_number>>
    /\ call.first[1].result.target_ship.static.sog_max = loc.target_ship_static.sog_max

(***************************************************************************)
(* path_crosses_land on its own                                            *)
(***************************************************************************)
\* Positions as generate_encounter passes them (a GeoPosition) and as the function reads
\* them (north, east).
LandPositions ==
    {GeoPosition(PiGeo \div 4, 1000), [north |-> 0, east |-> 0], [north |-> 100, east |-> -50]}

LandSpeeds == {0, 100, 500}

LandCourses == {0, HalfPi, Pi}

\* Horizons below, at and above num_checks and ten times num_checks.
LandTimeIntervals == {0, 5, 9, 10, 60, 100, 105, 600}

\* is_land is the answer of the land mask for the points of the track. The sample times are
\* kept in units of 1 / num_checks, in which i * time_interval / num_checks is the integer
\* i * time_interval.
InitLand ==
    /\ \E position_1 \in LandPositions, speed \in LandSpeeds, course \in LandCourses,
          time_interval \in LandTimeIntervals, is_land \in BOOLEAN :
           call = [fn |-> "path_crosses_land", position_1 |-> position_1, speed |-> speed,
                   course |-> course, lat_lon0 |-> <<45, 0>>,
                   time_interval |-> time_interval, is_land |-> is_land,
                   at |-> "read_position", i |-> 0, sample_times |-> <<>>,
                   raised |-> "", out |-> None]
    /\ MachineIdle

\* north_1 = position_1.north; east_1 = position_1.east
LandReadPosition ==
    /\ call.fn = "path_crosses_land"
    /\ call.at = "read_position"
    /\ call' = IF "north" \notin DOMAIN call.position_1
               THEN [call EXCEPT !.at = "raised", !.raised = "AttributeError"]
               ELSE [call EXCEPT !.at = "loop"]
    /\ UNCHANGED machineVars

\* A round of the loop: Position(north=north_1, east=east_1) raises; if it did not, the
\* point at time i * time_interval / num_checks would be looked up in the land mask.
LandLoopRound ==
    /\ call.fn = "path_crosses_land"
    /\ call.at = "loop"
    /\ call.i < range_length(call.time_interval)
    /\ call' = IF position_constructor_raises({"north", "east"})
               THEN [call EXCEPT !.at = "raised", !.raised = "ValidationError"]
               ELSE IF call.is_land
               THEN [call EXCEPT !.at = "returned", !.out = Some(TRUE),
                                 !.sample_times = Append(@, call.i * call.time_interval)]
               ELSE [call EXCEPT !.i = @ + 1,
                                 !.sample_times = Append(@, call.i * call.time_interval)]
    /\ UNCHANGED machineVars

\* return False
LandReturnFalse ==
    /\ call.fn = "path_crosses_land"
    /\ call.at = "loop"
    /\ call.i >= range_length(call.time_interval)
    /\ call' = [call EXCEPT !.at = "returned", !.out = Some(FALSE)]
    /\ UNCHANGED machineVars

NextLand ==
    \/ LandReadPosition
    \/ LandLoopRound
    \/ LandReturnFalse

SpecLand == InitLand /\ [][NextLand]_vars

\* The call of path_crosses_land has ended, by a return or an exception.
LandEnded == call.fn = "path_crosses_land" /\ call.at \in {"returned", "raised"}

\* C17: path_crosses_land samples exactly 10 equally spaced points of the track over the
\* horizon, every sample time within [0, horizon], and returns true if and only if at least
\* one sampled point is land.
C17_TenSamplesLandIff ==
    LandEnded =>
        /\ call.at = "returned"
        /\ Len(call.sample_times) = num_checks
        /\ \A k \in DOMAIN call.sample_times :
               /\ call.sample_times[k] >= 0
               /\ call.sample_times[k] <= num_checks * call.time_interval
        /\ call.out[1] <=> call.is_land

\* C17, what the code does: it never samples a point and never returns true; it returns
\* false exactly for a position with north and east and a horizon below num_checks, and
\* raises for every other input.
C17_NeverSamples ==
    LandEnded =>
        /\ call.sample_times = <<>>
        /\ call.out # Some(TRUE)
        /\ call.at = "returned" <=>
               /\ "north" \in DOMAIN call.position_1
               /\ call.time_interval < num_checks

\* C17, the case: a track over land, a position the function can read and a horizon of ten
\* times num_checks, for which the loop is set up for 10 rounds; the call ends in an
\* exception.
C17_TrackOverLandRaises ==
    /\ LandEnded
    /\ call.is_land
    /\ "north" \in DOMAIN call.position_1
    /\ range_length(call.time_interval) = num_checks
    /\ call.raised = "ValidationError"

(***************************************************************************)
(* The target speed and the template's maximum                             *)
(***************************************************************************)

\* An attempt has been made with the template loc.target_ship_static.
Attempted == pc \in {"inner_loop", "outer_loop", "done"} /\ hist.last_attempt # None

\* C19: in every attempt of generate_encounter the speed used for the solver, and the
\* initial.sog of every returned target ship, is at most the chosen template's sog_max,
\* after the rounding to one decimal.
C19_SpeedWithinSogMax ==
    /\ Attempted /\ LastAttempt.raised = ""
           => LastAttempt.target_ship_sog <= loc.target_ship_static.sog_max[1]
    /\ ReturnedFound
           => result.target_ship.initial.sog <= result.target_ship.static.sog_max[1]

\* C19, what the code keeps: the speed is at most sog_max rounded to one decimal, which is
\* above sog_max by up to 0.05 m/s.
C19_SpeedWithinRoundedSogMax ==
    /\ Attempted /\ LastAttempt.raised = ""
           => LastAttempt.target_ship_sog
                  <= RoundDiv(loc.target_ship_static.sog_max[1], 10) * 10
    /\ ReturnedFound
           => result.target_ship.initial.sog
                  <= RoundDiv(result.target_ship.static.sog_max[1], 10) * 10

\* C19, the case: a target ship is returned whose initial speed is above the maximum of
\* its template.
C19_ReturnedAboveSogMax ==
    /\ ReturnedFound
    /\ result.target_ship.initial.sog > result.target_ship.static.sog_max[1]

(***************************************************************************)
(* What an outer iteration fixes                                           *)
(***************************************************************************)

\* An outer iteration has resolved vector_time and beta.
Resolved == pc \in {"inner_loop", "outer_loop", "done"} /\ loc.outer_counter >= 1

\* The part of the locals that an outer iteration resolves.
ResolvedLocals(l) ==
    <<l.vector_time, l.beta, l.own_ship_cog, l.own_ship_position_future,
      l.target_ship_position_future>>

\* C20: vector_time and beta are resolved once per outer iteration: a fixed vector_time or
\* a fixed single beta is used as given, a [min, max] range for beta gives a draw inside the
\* range, an unset value a sample (vector_time inside settings.vector_range, beta one of the
\* values of assign_beta); an inner attempt leaves these two values, own ship's future
\* position and the target's future position unchanged and draws one number, for the speed,
\* exactly when relativeSpeed is unset.
C20_ResolvedOncePerOuterIteration ==
    /\ [](Resolved =>
              /\ IF request.vector_time_default = None
                 THEN /\ loc.vector_time >= request.settings.vector_range[1]
                      /\ loc.vector_time <= request.settings.vector_range[2]
                 ELSE loc.vector_time = request.vector_time_default[1]
              /\ CASE request.beta_default.kind = "float" ->
                          loc.beta = request.beta_default.value
                   [] request.beta_default.kind = "list" ->
                          /\ loc.beta >= request.beta_default.value[1]
                          /\ loc.beta <= request.beta_default.value[2]
                   [] OTHER ->
                          \E u \in UniformSamples :
                              loc.beta = assign_beta(request.desired_encounter_type,
                                                     request.settings.classification, u))
    /\ [][pc = "inner_loop" =>
              /\ ResolvedLocals(loc') = ResolvedLocals(loc)
              /\ loc'.outer_counter = loc.outer_counter
              /\ pc' # "raised" =>
                     hist'.draws - hist.draws
                         = IF request.relative_sog_default = None THEN 1 ELSE 0]_vars

\* C20, the case: in a second outer iteration with beta given as a range, two attempts have
\* been made and the search goes on.
C20_Witness ==
    /\ pc = "inner_loop"
    /\ request.beta_default.kind = "list"
    /\ loc.outer_counter >= 2
    /\ loc.inner_counter >= 2

\* C20, the case of fixed values: a call with vector_time, beta and relativeSpeed fixed has
\* returned after all its attempts without a draw in the attempts.
C20_FixedValuesWitness ==
    /\ Returned
    /\ request.beta_default.kind = "float"
    /\ request.vector_time_default # None
    /\ Len(hist.attempts) >= 2

(***************************************************************************)
(* generate_traffic_situations                                             *)
(***************************************************************************)
\* The parameters of define_own_ship.
define_own_ship_parameters ==
    {"desired_traffic_situation", "own_ship_static", "encounter_settings", "lat_lon0"}

\* A call of a function with four positional arguments and the given keyword arguments
\* raises a TypeError when a keyword is not a parameter of the function.
call_raises(parameters, keywords) == keywords \ parameters # {}

\* sum of num_situations over the situation inputs
RECURSIVE TotalNumSituations(_)
TotalNumSituations(desired_traffic_situations) ==
    IF desired_traffic_situations = <<>> THEN 0
    ELSE Head(desired_traffic_situations).num_situations
             + TotalNumSituations(Tail(desired_traffic_situations))

\* The target ships of one situation: the encounters that were found, in request order,
\* each named by its number in the request.
RECURSIVE FoundTargetShips(_, _)
FoundTargetShips(found, number) ==
    IF number > Len(found) THEN <<>>
    ELSE (IF found[number] THEN <<number>> ELSE <<>>) \o FoundTargetShips(found, number + 1)

MaxInputs == 2
MaxEncounters == 2
MaxNumSituations == 2

EncounterLists ==
    UNION {[1..n -> {HEAD_ON, OVERTAKING_GIVE_WAY}] : n \in 0..MaxEncounters}

SituationInputs ==
    {[num_situations |-> num_situations, encounters |-> encounters] :
         num_situations \in 0..MaxNumSituations, encounters \in EncounterLists}

DesiredTrafficSituations == UNION {[1..n -> SituationInputs] : n \in 0..MaxInputs}

InitSituations ==
    /\ \E desired_traffic_situations \in DesiredTrafficSituations,
          overwrite_ownship_initial_coord \in BOOLEAN :
           call = [fn |-> "generate_traffic_situations",
                   desired_traffic_situations |-> desired_traffic_situations,
                   overwrite_ownship_initial_coord |-> overwrite_ownship_initial_coord,
                   at |-> "situations_loop", index |-> 1,
                   traffic_situations |-> <<>>, raised |-> ""]
    /\ MachineIdle

\* One round of "for desired_traffic_situation in desired_traffic_situations": the call of
\* define_own_ship with the keyword overwrite_ownship_initial_coord raises; if it did
\* not, num_situations situations would be appended, each with the target ships of the
\* encounters that generate_encounter found.
SituationsLoopRound ==
    /\ call.fn = "generate_traffic_situations"
    /\ call.at = "situations_loop"
    /\ call.index <= Len(call.desired_traffic_situations)
    /\ LET desired_traffic_situation == call.desired_traffic_situations[call.index]
           encounters == desired_traffic_situation.encounters
           num_situations == desired_traffic_situation.num_situations
       IN  IF call_raises(define_own_ship_parameters, {"overwrite_ownship_initial_coord"})
           THEN call' = [call EXCEPT !.at = "raised", !.raised = "TypeError"]
           ELSE \E found \in [1..num_situations -> [DOMAIN encounters -> BOOLEAN]] :
                    call' = [call EXCEPT
                               !.index = @ + 1,
                               !.traffic_situations =
                                   @ \o [k \in 1..num_situations |->
                                            [input |-> call.index,
                                             found |-> found[k],
                                             target_ships |-> FoundTargetShips(found[k], 1)]]]
    /\ UNCHANGED machineVars

\* return traffic_situations
ReturnTrafficSituations ==
    /\ call.fn = "generate_traffic_situations"
    /\ call.at = "situations_loop"
    /\ call.index > Len(call.desired_traffic_situations)
    /\ call' = [call EXCEPT !.at = "returned"]
    /\ UNCHANGED machineVars

NextSituations ==
    \/ SituationsLoopRound
    \/ ReturnTrafficSituations

SpecSituations == InitSituations /\ [][NextSituations]_vars

\* The call of generate_traffic_situations has ended, by its return or an exception.
SituationsEnded ==
    call.fn = "generate_traffic_situations" /\ call.at \in {"returned", "raised"}

\* C18: generate_traffic_situations emits exactly num_situations situations for every
\* situation input, in input order, whether or not encounters are found; each situation
\* holds one target ship per requested encounter that was found, in request order, and none
\* for an encounter that was not found.
C18_EmitsNumSituationsPerInput ==
    SituationsEnded =>
        /\ call.at = "returned"
        /\ Len(call.traffic_situations) = TotalNumSituations(call.desired_traffic_situations)
        /\ \A k \in DOMAIN call.traffic_situations :
               LET situation == call.traffic_situations[k]
                   encounters ==
                       call.desired_traffic_situations[situation.input].encounters
               IN  /\ situation.target_ships = FoundTargetShips(situation.found, 1)
                   /\ Len(situation.target_ships) <= Len(encounters)
        /\ \A j, k \in DOMAIN call.traffic_situations :
               j < k => call.traffic_situations[j].input <= call.traffic_situations[k].input

\* C18, what the code does: a call returns only for an empty list of situation inputs and
\* emits no situation at all.
C18_EmitsNothing ==
    SituationsEnded =>
        /\ call.traffic_situations = <<>>
        /\ call.at = "returned" <=> call.desired_traffic_situations = <<>>

\* C18, the case: an input of two situations with two encounters each ends in a TypeError.
C18_InputEndsInTypeError ==
    /\ SituationsEnded
    /\ call.raised = "TypeError"
    /\ call.desired_traffic_situations[1].num_situations = 2
    /\ Len(call.desired_traffic_situations[1].encounters) = 2

(***************************************************************************)
(* The speed drawn by assign_sog_to_target_ship                            *)
(***************************************************************************)

\* The last attempt drew its speed with assign_sog_to_target_ship.
SpeedDrawn == Attempted /\ LastAttempt.assigned_sog # None

\* The relative-speed range configured for the desired type, and the range as the settings
\* hold it now; [0, 0] for a type without a range.
RangeOfDesiredType(relative_sog_setting) ==
    IF relative_sog_field(request.desired_encounter_type) = "none" THEN <<0, 0>>
    ELSE relative_sog_setting[relative_sog_field(request.desired_encounter_type)]

ConfiguredRange == RangeOfDesiredType(RelativeSpeedSetting)

\* C21: when relativeSpeed is unset, the speed drawn by assign_sog_to_target_ship in an
\* attempt, of a first or a later call, lies in [lo * ownSpeed, hi * ownSpeed] for the range
\* [lo, hi] configured for the desired type, and is at least the minimum feasible speed
\* whenever that minimum divided by ownSpeed lies strictly between lo and hi.
C21_DrawnSpeedInRange ==
    SpeedDrawn =>
        LET own_ship_sog == request.own_ship.initial.sog
            target_ship_sog == LastAttempt.assigned_sog[1]
            min_target_ship_sog == LastAttempt.min_target_ship_sog[1]
        IN  /\ target_ship_sog * RatioScale >= ConfiguredRange[1] * own_ship_sog
            /\ target_ship_sog * RatioScale <= ConfiguredRange[2] * own_ship_sog
            /\ (/\ min_target_ship_sog * RatioScale > ConfiguredRange[1] * own_ship_sog
                /\ min_target_ship_sog * RatioScale < ConfiguredRange[2] * own_ship_sog)
                   => target_ship_sog >= min_target_ship_sog

\* C21, the case: in a second call, whose range was narrowed by the first, the minimum
\* feasible speed lies strictly inside the configured range and below the narrowed lower
\* bound, and a speed was drawn.
C21_Witness ==
    /\ SpeedDrawn
    /\ call.run = 2
    /\ LET own_ship_sog == request.own_ship.initial.sog
           min_target_ship_sog == LastAttempt.min_target_ship_sog[1]
       IN  /\ min_target_ship_sog * RatioScale > ConfiguredRange[1] * own_ship_sog
           /\ min_target_ship_sog * RatioScale < ConfiguredRange[2] * own_ship_sog
           /\ min_target_ship_sog * RatioScale
                  < RangeOfDesiredType(LastAttempt.relative_sog_setting)[1] * own_ship_sog

(***************************************************************************)
(* assign_beta against determine_colreg                                    *)
(***************************************************************************)
\* assign_beta for a type, thresholds and a draw; alpha is the angle determine_colreg is
\* then called with, together with the beta drawn.
InitBeta ==
    /\ \E encounter_type \in EncounterType, c \in ClassificationSet, u \in UniformSamples :
           \E alpha \in AlphaGrid(c) :
               call = [fn |-> "assign_beta", encounter_type |-> encounter_type,
                       classification |-> c, u |-> u, alpha |-> alpha,
                       returned |-> FALSE, beta |-> None, colreg |-> None]
    /\ MachineIdle

CallAssignBeta ==
    /\ call.fn = "assign_beta"
    /\ ~call.returned
    /\ call' = [call EXCEPT
                  !.returned = TRUE,
                  !.beta = Some(assign_beta(call.encounter_type, call.classification, call.u))]
    /\ UNCHANGED machineVars

\* determine_colreg on the beta drawn, brought into [0, 2*pi).
CallDetermineColregOnBeta ==
    /\ call.fn = "assign_beta"
    /\ call.returned
    /\ call.colreg = None
    /\ call' = [call EXCEPT
                  !.colreg = Some(classify(call.alpha, call.beta[1] % TwoPi,
                                           call.classification))]
    /\ UNCHANGED machineVars

NextBeta ==
    \/ CallAssignBeta
    \/ CallDetermineColregOnBeta

SpecBeta == InitBeta /\ [][NextBeta]_vars

\* assign_beta has returned a beta for a type with a rule.
BetaDrawn ==
    call.fn = "assign_beta" /\ call.returned /\ call.encounter_type \in RiskTypes

\* Some alpha of the grid makes determine_colreg return the type for the beta drawn.
SomeAlphaGivesType ==
    \E alpha \in AlphaGrid(call.classification) :
        /\ alpha < Pi
        /\ classify(alpha, call.beta[1] % TwoPi, call.classification) = call.encounter_type

C22_BetaInSubRangeExceptCrossingStandOn ==
    BetaDrawn =>
        LET c == call.classification
            drawn == -c.theta15[2] + Scaled(call.u, c.theta15[2] + c.theta15_criteria)
        IN  CASE call.encounter_type \in {OVERTAKING_GIVE_WAY, HEAD_ON} ->
                     SomeAlphaGivesType
              [] call.encounter_type \in {OVERTAKING_STAND_ON, CROSSING_GIVE_WAY} ->
                     call.u > 0 => SomeAlphaGivesType
              [] OTHER ->
                     SomeAlphaGivesType <=> drawn > -c.theta15[1]

\* C22, the case: a beta drawn for crossing-stand-on with a draw above 0 that lies in the
\* classifier's range for overtaking-stand-on, and for which no alpha of the grid gives
\* crossing-stand-on.
C22_CrossingStandOnBetaAstern ==
    /\ BetaDrawn
    /\ call.encounter_type = CROSSING_STAND_ON
    /\ call.u > 0
    /\ call.beta[1] > call.classification.theta15[1]
    /\ call.beta[1] < call.classification.theta15[2]
    /\ ~SomeAlphaGivesType
    /\ call.colreg # None

(***************************************************************************)
(* calculate_relative_bearing on its own                                   *)
(***************************************************************************)
\* Offsets of the two ships from the reference point [m]: equal eastings, equal northings,
\* coincident positions and every quadrant occur.
BearingOffsets == {-200, 0, 100}

\* Headings inside and outside [0, 2*pi), the ends of the intervals among them.
BearingHeadings == {-TwoPi - HalfPi, -Pi, 0, HalfPi, Pi, TwoPi, 2 * TwoPi + 1000}

BearingReference == GeoPosition(PiGeo \div 4, 1000)

InitBearing ==
    /\ \E n_own_ship \in {0, 100}, n_target_ship \in BearingOffsets,
          e_target_ship \in BearingOffsets, heading_own_ship \in BearingHeadings,
          heading_target_ship \in BearingHeadings :
           call = [fn |-> "calculate_relative_bearing",
                   position_own_ship |->
                       flat2llh(n_own_ship, 0, BearingReference.lat, BearingReference.lon),
                   heading_own_ship |-> heading_own_ship,
                   position_target_ship |->
                       flat2llh(n_target_ship, e_target_ship,
                                BearingReference.lat, BearingReference.lon),
                   heading_target_ship |-> heading_target_ship,
                   lat_lon0 |-> BearingReference,
                   returned |-> FALSE, out |-> None]
    /\ MachineIdle

CallRelativeBearing ==
    /\ call.fn = "calculate_relative_bearing"
    /\ ~call.returned
    /\ call' = [call EXCEPT
                  !.returned = TRUE,
                  !.out = Some(calculate_relative_bearing(
                                   call.position_own_ship, call.heading_own_ship,
                                   call.position_target_ship, call.heading_target_ship,
                                   call.lat_lon0))]
    /\ UNCHANGED machineVars

NextBearing == CallRelativeBearing

SpecBearing == InitBearing /\ [][NextBearing]_vars

BearingReturned == call.fn = "calculate_relative_bearing" /\ call.returned

\* The two ships in the flat frame of the call.
BearingOwn ==
    llh2flat(call.position_own_ship.lat, call.position_own_ship.lon,
             call.lat_lon0.lat, call.lat_lon0.lon)
BearingTarget ==
    llh2flat(call.position_target_ship.lat, call.position_target_ship.lon,
             call.lat_lon0.lat, call.lat_lon0.lon)

\* The absolute bearing own -> target as a compass angle in [0, 2*pi): the angle of the
\* difference vector counted from north over east.
AbsoluteBearing ==
    Arctan2(BearingTarget.east - BearingOwn.east, BearingTarget.north - BearingOwn.north)
        % TwoPi

\* C23: for any two positions and headings, equal eastings and coincident positions
\* included, calculate_relative_bearing returns beta in [0, 2*pi) and alpha in [-pi, pi),
\* beta being the absolute bearing own -> target minus own heading and alpha that bearing
\* plus pi minus the target's heading, each wrapped into its interval; with equal eastings
\* the absolute bearing is 0 if the target is not south of own ship and pi otherwise.
C23_RelativeBearingWrapped ==
    BearingReturned =>
        /\ call.out[1].beta >= 0 /\ call.out[1].beta < TwoPi
        /\ call.out[1].alpha >= -Pi /\ call.out[1].alpha < Pi
        /\ call.out[1].beta = (AbsoluteBearing - call.heading_own_ship) % TwoPi
        /\ call.out[1].alpha
               = ((AbsoluteBearing + Pi - call.heading_target_ship + Pi) % TwoPi) - Pi
        /\ BearingOwn.east = BearingTarget.east
               => AbsoluteBearing = IF BearingOwn.north <= BearingTarget.north THEN 0 ELSE Pi

\* C23, the case: coincident positions, and headings for which beta and alpha fall on the
\* closed ends of their intervals.
C23_Witness ==
    /\ BearingReturned
    /\ BearingOwn = BearingTarget
    /\ call.out[1].beta = 0
    /\ call.out[1].alpha = -Pi

\* C23, the case of equal eastings with the target south of own ship.
C23_TargetDueSouth ==
    /\ BearingReturned
    /\ BearingOwn.east = BearingTarget.east
    /\ BearingOwn.north > BearingTarget.north
    /\ call.out[1].beta = (Pi - call.heading_own_ship) % TwoPi

(***************************************************************************)
(* calculate_position_along_track_using_waypoints on its own               *)
(***************************************************************************)
\* Tracks of two and three waypoints with legs of 100 m and more, given by their offsets
\* [m] from the first waypoint.
WaypointOffsets ==
    {<<[north |-> 0, east |-> 0], [north |-> 100, east |-> 0]>>,
     <<[north |-> 0, east |-> 0], [north |-> 0, east |-> 100]>>,
     <<[north |-> 0, east |-> 0], [north |-> 100, east |-> 0], [north |-> 100, east |-> 100]>>,
     <<[north |-> 0, east |-> 0], [north |-> 0, east |-> 100], [north |-> 200, east |-> 100]>>,
     <<[north |-> 0, east |-> 0], [north |-> 100, east |-> 0], [north |-> 300, east |-> 0]>>}

\* waypoint.leg.data.sog.value of a leg, or no leg data.
LegSogs == {None, Some(200)}

AlongTrackSpeeds == {0, 100, 500}

AlongTrackTimes == {0, 20, 50, 100, 150, 400}

AlongTrackStart == GeoPosition(PiGeo \div 4, 1000)

InitAlongTrack ==
    /\ \E offsets \in WaypointOffsets, inital_speed \in AlongTrackSpeeds,
          vector_time \in AlongTrackTimes :
           \E leg_sog \in [DOMAIN offsets -> LegSogs] :
               call = [fn |-> "calculate_position_along_track_using_waypoints",
                       waypoints |->
                           [i \in DOMAIN offsets |->
                               [position |-> flat2llh(offsets[i].north, offsets[i].east,
                                                      AlongTrackStart.lat, AlongTrackStart.lon),
                                leg_sog |-> leg_sog[i]]],
                       inital_speed |-> inital_speed, vector_time |-> vector_time,
                       returned |-> FALSE, out |-> None]
    /\ MachineIdle

CallPositionAlongTrack ==
    /\ call.fn = "calculate_position_along_track_using_waypoints"
    /\ ~call.returned
    /\ call' = [call EXCEPT
                  !.returned = TRUE,
                  !.out = Some(calculate_position_along_track_using_waypoints(
                                   call.waypoints, call.inital_speed, call.vector_time))]
    /\ UNCHANGED machineVars

NextAlongTrack == CallPositionAlongTrack

SpecAlongTrack == InitAlongTrack /\ [][NextAlongTrack]_vars

AlongTrackReturned ==
    call.fn = "calculate_position_along_track_using_waypoints" /\ call.returned

\* The legs of the track, each named by the waypoint it ends in.
Legs == 2..Len(call.waypoints)

\* The speed of a leg: its override when present, the initial speed otherwise.
LegSpeed(i) ==
    IF call.waypoints[i].leg_sog = None THEN call.inital_speed
    ELSE call.waypoints[i].leg_sog[1]

LegLength(i) == calculate_distance(call.waypoints[i - 1].position, call.waypoints[i].position)

\* The time the ship is in transit before leg i: the sum of length / speed over the legs
\* before it.
RECURSIVE TimeInTransitBefore(_)
TimeInTransitBefore(i) ==
    IF i <= 2 \/ LegSpeed(i - 1) = 0 THEN 0
    ELSE TimeInTransitBefore(i - 1) + RoundDiv(LegLength(i - 1) * SogScale, LegSpeed(i - 1))

\* The distance the ship would travel on leg i in what is left of vector_time.
DistanceOnLeg(i) ==
    RoundDiv(LegSpeed(i) * (call.vector_time - TimeInTransitBefore(i)), SogScale)

\* The first leg that the ship does not leave within vector_time, if there is one.
LegsReached == {i \in Legs : /\ \A j \in 2..(i - 1) : DistanceOnLeg(j) > LegLength(j)
                             /\ DistanceOnLeg(i) <= LegLength(i)}

\* C24: for a track of at least two waypoints and vector_time >= 0 the function returns
\* the final waypoint's position when vector_time exceeds the total transit time, and
\* otherwise the point on the first leg in which the accumulated transit time reaches
\* vector_time, at the distance speed * (vector_time - time in transit) from the leg's
\* start along the leg; the speed of a leg is its override when present and the initial
\* speed otherwise, and the result lies no further from the leg's start than the leg's end.
C24_PositionOnLegReached ==
    AlongTrackReturned =>
        IF LegsReached = {}
        THEN call.out[1] = call.waypoints[Len(call.waypoints)].position
        ELSE \A i \in LegsReached :
                 /\ call.out[1] =
                        calculate_destination_along_track(
                            call.waypoints[i - 1].position, DistanceOnLeg(i),
                            calculate_bearing_between_waypoints(
                                call.waypoints[i - 1].position, call.waypoints[i].position))
                 /\ calculate_distance(call.waypoints[i - 1].position, call.out[1])
                        <= LegLength(i) + 1

\* C24, the case: on a track of three waypoints with an override on the second leg, the
\* ship has left the first leg and is on the second, short of the last waypoint.
C24_Witness ==
    /\ AlongTrackReturned
    /\ Len(call.waypoints) = 3
    /\ call.waypoints[3].leg_sog # None
    /\ call.waypoints[2].leg_sog = None
    /\ LegsReached = {3}
    /\ DistanceOnLeg(3) > 0
    /\ DistanceOnLeg(3) < LegLength(3)

\* C24, the case of a vector_time beyond the total transit time: the final waypoint.
C24_BeyondLastWaypoint ==
    /\ AlongTrackReturned
    /\ Len(call.waypoints) = 3
    /\ LegsReached = {}
    /\ call.out[1] = call.waypoints[3].position

(***************************************************************************)
(* The instant of the pre-encounter classification                         *)
(***************************************************************************)

\* The last attempt found a start position and so ran check_encounter_evolvement.
EvolvementChecked ==
    Attempted /\ LastAttempt.raised \in {"", "AttributeError"} /\ LastAttempt.position_found

\* check_encounter_evolvement for the locals of the last attempt with own ship's position
\* after vector_time: both ships taken evolve_time before the rendezvous instant.
EvolvementAtCommonInstant ==
    check_encounter_evolvement(
        request.own_ship, loc.own_ship_cog, loc.own_ship_position_future,
        loc.lat_lon0, LastAttempt.target_ship_sog, LastAttempt.target_ship_cog,
        loc.target_ship_position_future, request.desired_encounter_type,
        request.settings)

\* The same with own ship's position at the start of the situation.
EvolvementFromInitialPosition ==
    check_encounter_evolvement(
        request.own_ship, loc.own_ship_cog, request.own_ship.initial.position,
        loc.lat_lon0, LastAttempt.target_ship_sog, LastAttempt.target_ship_cog,
        loc.target_ship_position_future, request.desired_encounter_type,
        request.settings)

\* C25: the pre-encounter classification that generate_encounter requires to equal the
\* desired type is computed from the positions of both ships at one common instant,
\* evolve_time before the rendezvous: own ship's position after vector_time and the target's
\* future position, each moved back by evolve_time.
C25_ClassifiedAtCommonInstant ==
    EvolvementChecked => LastAttempt.encounter_ok = EvolvementAtCommonInstant

\* C25, what the code does: own ship is moved back from its position at the start of the
\* situation, the target from its position vector_time later; the acceptance is equality of
\* that classification with the desired type.
C25_ClassifiedFromInitialPosition ==
    EvolvementChecked => LastAttempt.encounter_ok = EvolvementFromInitialPosition

\* C25, the case: an encounter is returned as found although the classification of the
\* two ships evolve_time before the rendezvous is not the desired type.
C25_FoundAgainstCommonInstant ==
    /\ ReturnedFound
    /\ EvolvementChecked
    /\ ~EvolvementAtCommonInstant

(***************************************************************************)
(* generate_encounter: an empty list of templates, an own ship at rest     *)
(***************************************************************************)
\* The request breaks a precondition of generate_encounter: no target ship template,
\* or an own ship with speed zero.
PreconditionViolated ==
    \/ Len(request.target_ships_static) = 0
    \/ request.own_ship.initial.sog = 0

\* C26: when the list of target ship templates is empty, or own ship's speed is zero
\* (relativeSpeed set or unset), generate_encounter raises an error before or at the
\* first attempt: it makes no second attempt and never returns.
C26_PreconditionViolationsFailFast ==
    PreconditionViolated => /\ ~Returned
                            /\ Len(hist.attempts) <= 1
                            /\ (Len(hist.attempts) = 1 => Raised)

\* C26: the same for the requests that leave relativeSpeed unset or have no template,
\* where the code raises ValueError (no template) or ZeroDivisionError (speed zero).
C26_FailFastUnlessRelativeSpeedSet ==
    (PreconditionViolated
     /\ (Len(request.target_ships_static) = 0 \/ request.relative_sog_default = None))
        => /\ ~Returned
           /\ Len(hist.attempts) <= 1
           /\ (Len(hist.attempts) = 1 => Raised /\ result.raised = "ZeroDivisionError")
           /\ (Len(request.target_ships_static) = 0 /\ pc # "decide_target_ship"
                   => Raised /\ result.raised = "ValueError")

\* C26: own ship at rest and relativeSpeed set: all 25 attempts are made and the call
\* returns without an encounter.
C26_RetriesAbsorbZeroSpeed ==
    /\ request.own_ship.initial.sog = 0
    /\ request.relative_sog_default # None
    /\ ReturnedNotFound
    /\ Len(hist.attempts) = 25

(***************************************************************************)
(* define_own_ship                                                         *)
(***************************************************************************)
\* Mutant: Ship.__init__ keeps the waypoints it is given, an empty list included.
Ship_init_keeps_waypoints(initial, waypoints) == waypoints

\* Ship.__init__: if not self.waypoints: self.waypoints = self._generate_waypoints().
\* None and the empty list are both falsy.
Ship_init_waypoints(initial, waypoints) ==
    IF waypoints = <<>> THEN generate_waypoints(initial) ELSE waypoints

\* desired_traffic_situation.own_ship.waypoints is None, or Some(list of waypoints).
define_own_ship(desired_traffic_situation, own_ship_static, encounter_settings, lat_lon0) ==
    LET own_ship_initial == desired_traffic_situation.own_ship.initial
        given == desired_traffic_situation.own_ship.waypoints
        own_ship_waypoints ==
            IF given = None
            THEN <<Waypoint(own_ship_initial.position),
                   Waypoint(calculate_position_at_certain_time(
                                own_ship_initial.position, lat_lon0, own_ship_initial.sog,
                                own_ship_initial.cog, encounter_settings.situation_length))>>
            ELSE IF Len(given[1]) = 1
            THEN <<Waypoint(own_ship_initial.position), given[1][1]>>
            ELSE given[1]
    IN  [static |-> IF own_ship_static.name = None
                    THEN [own_ship_static EXCEPT !.name = <<"OS", 0>>]
                    ELSE own_ship_static,
         initial |-> own_ship_initial,
         waypoints |-> Ship_init_waypoints(own_ship_initial, own_ship_waypoints)]

DefineStart == GeoPosition(PiGeo \div 4, 1000)

\* The waypoints of the situation input: none, an empty list, one, two or three.
DefineWaypoints ==
    {None, Some(<<>>)}
    \cup {Some(<<Waypoint(flat2llh(n, e, DefineStart.lat, DefineStart.lon))>>) :
              n \in {0, 300}, e \in {0, 300}}
    \cup {Some([i \in DOMAIN offsets |->
                   Waypoint(flat2llh(offsets[i].north, offsets[i].east,
                                     DefineStart.lat, DefineStart.lon))]) :
              offsets \in WaypointOffsets}

DefineSogs == {0, 100, 500}
DefineCogs == {0, 7854, HalfPi, Pi, 3 * HalfPi}
DefineSituationLengths == {60, 600}

InitDefine ==
    /\ \E waypoints \in DefineWaypoints, sog \in DefineSogs, cog \in DefineCogs,
          situation_length \in DefineSituationLengths :
           call = [fn |-> "define_own_ship",
                   desired_traffic_situation |->
                       [own_ship |->
                            [initial |-> Initial(DefineStart, sog, cog, cog,
                                                 UNDER_WAY_USING_ENGINE),
                             waypoints |-> waypoints]],
                   own_ship_static |-> [id |-> 0, name |-> None, sog_max |-> Some(500)],
                   encounter_settings |-> [situation_length |-> situation_length],
                   lat_lon0 |-> DefineStart,
                   returned |-> FALSE, out |-> None, own_ship_cog |-> None]
    /\ MachineIdle

CallDefineOwnShip ==
    /\ call.fn = "define_own_ship"
    /\ ~call.returned
    /\ call' = [call EXCEPT
                  !.returned = TRUE,
                  !.out = Some(define_own_ship(call.desired_traffic_situation,
                                               call.own_ship_static,
                                               call.encounter_settings, call.lat_lon0))]
    /\ UNCHANGED machineVars

\* generate_encounter reads own_ship.waypoints[0] and own_ship.waypoints[1] for own
\* ship's course; an index past the end of the list raises an IndexError.
ReadOwnShipCog ==
    /\ call.fn = "define_own_ship"
    /\ call.returned
    /\ call.own_ship_cog = None
    /\ call' = [call EXCEPT
                  !.own_ship_cog =
                      IF Len(call.out[1].waypoints) < 2
                      THEN Some([raised |-> "IndexError", value |-> 0])
                      ELSE Some([raised |-> "",
                                 value |-> calculate_bearing_between_waypoints(
                                               call.out[1].waypoints[1].position,
                                               call.out[1].waypoints[2].position)])]
    /\ UNCHANGED machineVars

NextDefine ==
    \/ CallDefineOwnShip
    \/ ReadOwnShipCog

SpecDefine == InitDefine /\ [][NextDefine]_vars

DefineReturned == call.fn = "define_own_ship" /\ call.returned
DefineGiven == call.desired_traffic_situation.own_ship.waypoints
DefineInitial == call.desired_traffic_situation.own_ship.initial

\* The second waypoint lies where own ship is after situation_length at its initial
\* speed on its initial course: at that distance from the initial position (to a metre
\* and one part in TrigScale, the resolution of Cos and Sin) and, when the ship moves,
\* on that bearing (to 0.01 rad).
AfterSituationLength(position) ==
    LET travelled == RoundDiv(DefineInitial.sog * call.encounter_settings.situation_length,
                              SogScale)
        distance == calculate_distance(DefineInitial.position, position)
        bearing == calculate_bearing_between_waypoints(DefineInitial.position, position)
    IN  /\ Abs(distance - travelled) * TrigScale <= travelled + TrigScale
        /\ travelled > 0 =>
               \/ Abs(bearing - DefineInitial.cog) <= 100
               \/ Abs(bearing - DefineInitial.cog) >= TwoPi - 100

\* C27: define_own_ship returns an own ship with at least two waypoints for every input
\* (no waypoints, an empty list, one waypoint, several): with none given the track is
\* the initial position and the position after situation_length at the initial speed
\* and course, with one given it is the initial position and the given waypoint, with
\* two or more it is the given list; generate_encounter can read waypoints[0] and
\* waypoints[1].
C27_AtLeastTwoWaypoints ==
    DefineReturned =>
        LET waypoints == call.out[1].waypoints
        IN  /\ Len(waypoints) >= 2
            /\ DefineGiven = None =>
                   /\ Len(waypoints) = 2
                   /\ waypoints[1] = Waypoint(DefineInitial.position)
                   /\ AfterSituationLength(waypoints[2].position)
                   /\ waypoints[2].leg_sog = None
            /\ (DefineGiven # None /\ Len(DefineGiven[1]) = 1) =>
                   waypoints = <<Waypoint(DefineInitial.position), DefineGiven[1][1]>>
            /\ (DefineGiven # None /\ Len(DefineGiven[1]) >= 2) =>
                   waypoints = DefineGiven[1]
            /\ call.own_ship_cog # None => call.own_ship_cog[1].raised = ""

\* C27: an empty list of waypoints was given, and own ship's course was read from the
\* two waypoints returned.
C27_Witness ==
    /\ DefineReturned
    /\ DefineGiven = Some(<<>>)
    /\ DefineInitial.sog > 0
    /\ call.own_ship_cog = Some([raised |-> "", value |-> DefineInitial.cog])

\* C27: one waypoint was given and the track returned starts at the initial position.
C27_OneWaypointGiven ==
    /\ DefineReturned
    /\ DefineGiven # None
    /\ Len(DefineGiven[1]) = 1
    /\ Len(call.out[1].waypoints) = 2
    /\ call.own_ship_cog # None

(***************************************************************************)
(* The static ids of the target ships of two calls of generate_encounter   *)
(***************************************************************************)
\* Both calls made for one traffic situation returned a target ship.
BothCallsFound ==
    /\ call.run = 2
    /\ ReturnedFound
    /\ call.first[1].result.encounter_found

\* C28: within one traffic situation the target ships have pairwise distinct static
\* ids: the first target ship found gets id 10 and each further one a different id.
C28_DistinctStaticIds ==
    /\ (call.run = 1 /\ ReturnedFound) => result.target_ship.static.id = 10
    /\ BothCallsFound =>
           result.target_ship.static.id # call.first[1].result.target_ship.static.id

\* C28, what the code does: target_ship_id is a local of generate_encounter that starts
\* at 10 in every call, so every target ship found has the static id 10.
C28_EveryFoundShipHasId10 ==
    ReturnedFound => /\ result.target_ship.static.id = 10
                     /\ loc.target_ship_id = 11

\* C28, the case: the two target ships of one situation both carry id 10.
C28_TwoShipsWithId10 ==
    /\ BothCallsFound
    /\ result.target_ship.static.id = 10
    /\ call.first[1].result.target_ship.static.id = 10

(***************************************************************************)
(* write_traffic_situation_to_file, read_generated_situation_files         *)
(***************************************************************************)
\* The numbers of a traffic situation are kept to four decimals: 10000 is 1.0 of the
\* unit the number is in (rad, deg, m/s or knots).
WriteScale == 10000

\* round(x, ndigits) of a number kept to four decimals, ndigits <= 4.
RoundTo(x, unit) == RoundDiv(x, unit) * unit

\* angle_in_radians * 180.0 / np.pi, with 180 / pi = 57.296
rad_2_deg(angle_in_radians) ==
    angle_in_radians * 57 + RoundDiv(angle_in_radians * 296, 1000)

\* speed_in_m_pr_s / 0.5144
m_pr_s_2_knot(speed_in_m_pr_s) == RoundDiv(speed_in_m_pr_s * WriteScale, 5144)

\* The ship after convert_ship_data_from_si_units_to_maritime, which assigns to the
\* fields of the object it is given: positions rounded to 8 decimals (more than are
\* kept here), cog and heading to 2, sog to 1. The waypoints carry no turn radius
\* and no leg.
convert_ship_data_from_si_units_to_maritime(ship) ==
    [ship EXCEPT
       !.initial = [position |-> GeoPosition(rad_2_deg(@.position.lat),
                                             rad_2_deg(@.position.lon)),
                    cog |-> RoundTo(rad_2_deg(@.cog), 100),
                    sog |-> RoundTo(m_pr_s_2_knot(@.sog), 1000),
                    heading |-> RoundTo(rad_2_deg(@.heading), 100)],
       !.waypoints = [i \in DOMAIN @ |->
                         [position |-> GeoPosition(rad_2_deg(@[i].position.lat),
                                                   rad_2_deg(@[i].position.lon))]]]

\* The situation object after convert_situation_data_from_si_units_to__maritime: own
\* ship and every target ship converted in place.
convert_situation_data_from_si_units_to__maritime(situation) ==
    [situation EXCEPT
       !.own_ship = convert_ship_data_from_si_units_to_maritime(@),
       !.target_ships = [i \in DOMAIN @ |-> convert_ship_data_from_si_units_to_maritime(@[i])]]

\* situation.model_dump(...) with "sogMax" popped from the static data of every ship.
dumped_without_sog_max(situation) ==
    LET dumped(ship) ==
            [static |-> [id |-> ship.static.id], initial |-> ship.initial,
             waypoints |-> ship.waypoints]
    IN  [ownShip |-> dumped(situation.own_ship),
         targetShips |-> [i \in DOMAIN situation.target_ships |->
                             dumped(situation.target_ships[i])]]

\* f"traffic_situation_{file_number:02d}.json": the digits of the number, a leading
\* zero added below 10.
RECURSIVE Digits(_)
Digits(n) == IF n < 10 THEN <<n>> ELSE Append(Digits(n \div 10), n % 10)

output_file_path(file_number) ==
    <<"traffic_situation_",
      IF file_number < 10 THEN <<0>> \o Digits(file_number) ELSE Digits(file_number),
      ".json">>

\* The folder after the loop of write_traffic_situations_to_json_file: every situation
\* converted and written to the file of its number, files of other names kept.
written_folder(folder, situations) ==
    LET written == {output_file_path(i) : i \in DOMAIN situations}
    IN  [path \in DOMAIN folder \cup written |->
            IF path \in written
            THEN Only({dumped_without_sog_max(
                           convert_situation_data_from_si_units_to__maritime(situations[i])) :
                       i \in {j \in DOMAIN situations : output_file_path(j) = path}})
            ELSE folder[path]]

\* The field constraints of GeoPosition and Initial that TrafficSituation(**data)
\* validates when a file is read.
ship_data_valid(ship) ==
    /\ ship.initial.position.lon >= -180 * WriteScale
    /\ ship.initial.position.lon <= 180 * WriteScale
    /\ ship.initial.position.lat >= -90 * WriteScale
    /\ ship.initial.position.lat <= 90 * WriteScale
    /\ ship.initial.sog >= 0
    /\ ship.initial.cog >= 0 /\ ship.initial.cog <= 360 * WriteScale
    /\ ship.initial.heading >= 0 /\ ship.initial.heading <= 360 * WriteScale
    /\ \A i \in DOMAIN ship.waypoints :
           /\ ship.waypoints[i].position.lon >= -180 * WriteScale
           /\ ship.waypoints[i].position.lon <= 180 * WriteScale
           /\ ship.waypoints[i].position.lat >= -90 * WriteScale
           /\ ship.waypoints[i].position.lat <= 90 * WriteScale

\* read_generated_situation_files: one situation per .json file of the folder, or the
\* ValidationError of the first file that breaks a field constraint.
read_generated_situation_files(folder) ==
    IF \E path \in DOMAIN folder :
           \/ ~ship_data_valid(folder[path].ownShip)
           \/ \E i \in DOMAIN folder[path].targetShips :
                  ~ship_data_valid(folder[path].targetShips[i])
    THEN [raised |-> "ValidationError", situations |-> 0]
    ELSE [raised |-> "", situations |-> Cardinality(DOMAIN folder)]

\* A ship in SI units with the track Ship.__init__ or generate_encounter gives it: the
\* initial position and one further waypoint.
WrittenShip(id, lat, cog, sog) ==
    [static |-> [id |-> id, sog_max |-> Some(10 * WriteScale)],
     initial |-> [position |-> GeoPosition(lat, 1000), cog |-> cog, sog |-> sog,
                  heading |-> cog],
     waypoints |-> <<[position |-> GeoPosition(lat, 1000)],
                     [position |-> GeoPosition(lat + 10, 1000)]>>]

\* Situations in SI units: own ship on the equator or at 0.7854 rad north, at rest or
\* at 1 m/s, with no target ship or one.
WrittenSituations ==
    {[own_ship |-> WrittenShip(0, lat, cog, sog), target_ships |-> target_ships] :
         lat \in {0, 7854}, cog \in {0, 15708}, sog \in {0, WriteScale},
         target_ships \in {<<>>, <<WrittenShip(10, 7900, 31416, 2 * WriteScale)>>}}

MaxWritten == 2

InitWrite ==
    /\ \E situations \in UNION {[1..n -> WrittenSituations] : n \in 0..MaxWritten} :
           call = [fn |-> "write_traffic_situations_to_json_file",
                   given |-> situations, situations |-> situations,
                   folder |-> <<>>, writes |-> 0, first |-> None, reread |-> None]
    /\ MachineIdle

\* write_traffic_situations_to_json_file(situations, write_folder): the files are
\* written and the situation objects of the caller's list hold the converted numbers.
WriteTrafficSituations ==
    /\ call.fn = "write_traffic_situations_to_json_file"
    /\ call.writes < 2
    /\ call' = [call EXCEPT
                  !.folder = written_folder(@, call.situations),
                  !.situations =
                      [i \in DOMAIN @ |->
                          convert_situation_data_from_si_units_to__maritime(@[i])],
                  !.writes = @ + 1,
                  !.first = IF call.writes = 0
                            THEN Some(written_folder(call.folder, call.situations))
                            ELSE @,
                  !.reread = None]
    /\ UNCHANGED machineVars

\* reread_situations = read_generated_situation_files(output_folder)
ReadGeneratedSituationFiles ==
    /\ call.fn = "write_traffic_situations_to_json_file"
    /\ call.writes > 0
    /\ call.reread = None
    /\ call' = [call EXCEPT !.reread = Some(read_generated_situation_files(call.folder))]
    /\ UNCHANGED machineVars

NextWrite ==
    \/ WriteTrafficSituations
    \/ ReadGeneratedSituationFiles

SpecWrite == InitWrite /\ [][NextWrite]_vars

Written == call.fn = "write_traffic_situations_to_json_file" /\ call.writes > 0

\* C29: write_traffic_situations_to_json_file leaves the TrafficSituation objects it is
\* given unchanged (still in SI units), so writing the same list a second time produces
\* files identical to the first write; it writes exactly one file
\* traffic_situation_NN.json per situation, so that re-reading an initially empty
\* output folder yields as many situations as were written.
C29_WriteLeavesSituationsUnchanged ==
    Written =>
        /\ call.situations = call.given
        /\ call.writes = 2 => call.folder = call.first[1]
        /\ DOMAIN call.folder = {output_file_path(i) : i \in DOMAIN call.given}
        /\ Cardinality(DOMAIN call.folder) = Len(call.given)
        /\ call.reread # None =>
               call.reread[1] = [raised |-> "", situations |-> Len(call.given)]

\* C29, what the code does: after each write the objects hold the converted numbers of
\* what they held before; one file per situation is written, and after the first write
\* the folder reads back as many situations as were written.
C29_WriteConvertsInPlace ==
    Written =>
        /\ call.writes = 1 =>
               call.situations =
                   [i \in DOMAIN call.given |->
                       convert_situation_data_from_si_units_to__maritime(call.given[i])]
        /\ \A i \in DOMAIN call.given :
               call.first[1][output_file_path(i)] =
                   dumped_without_sog_max(
                       convert_situation_data_from_si_units_to__maritime(call.given[i]))
        /\ DOMAIN call.folder = {output_file_path(i) : i \in DOMAIN call.given}
        /\ Cardinality(DOMAIN call.folder) = Len(call.given)
        /\ (call.writes = 1 /\ call.reread # None) =>
               call.reread[1] = [raised |-> "", situations |-> Len(call.given)]

\* C29, the case: the second write of the same list left files that differ from those
\* of the first write.
C29_SecondWriteDiffers ==
    /\ Written
    /\ call.writes = 2
    /\ Len(call.given) = 2
    /\ call.situations # call.given
    /\ call.folder # call.first[1]

(***************************************************************************)
(* determine_colreg from the two ships' perspectives                       *)
(***************************************************************************)
\* The thresholds of the settings of tests/test_types.py: every criterion 1.0 and
\* theta15 = [1.0, 2.0].
ClassificationEqual ==
    [theta13_criteria |-> 10000, theta14_criteria |-> 10000, theta15_criteria |-> 10000,
     theta15 |-> <<10000, 20000>>]

InitSwap ==
    \E c \in ClassificationSet \cup {ClassificationEqual} :
        \E alpha \in AlphaGrid(c), beta \in BetaGrid(c) :
            /\ call = [fn |-> "determine_colreg", alpha |-> alpha, beta |-> beta,
                        classification |-> c, returned |-> FALSE, out |-> "none",
                        swapped |-> "none"]
            /\ MachineIdle

\* determine_colreg called for the other ship: what was beta is its alpha, brought into
\* [-pi, pi), and what was alpha is its beta, brought into [0, 2 * pi).
CallDetermineColregSwapped ==
    /\ call.fn = "determine_colreg"
    /\ call.swapped = "none"
    /\ call' = [call EXCEPT
                  !.swapped = classify(wrap_alpha(call.beta), alpha_2_pi(call.alpha),
                                       call.classification)]
    /\ UNCHANGED machineVars

NextSwap ==
    \/ CallDetermineColreg
    \/ CallDetermineColregSwapped

SpecSwap == InitSwap /\ [][NextSwap]_vars

\* Both classifications are made, for alpha in [-pi, pi) and beta in [0, 2 * pi).
BothClassified ==
    /\ call.fn = "determine_colreg"
    /\ call.returned
    /\ call.swapped # "none"
    /\ call.alpha >= -Pi /\ call.alpha < Pi
    /\ call.beta >= 0 /\ call.beta < TwoPi

\* The role of the other ship: give-way for stand-on and stand-on for give-way.
OtherRole(type) ==
    CASE type = OVERTAKING_GIVE_WAY -> OVERTAKING_STAND_ON
      [] type = OVERTAKING_STAND_ON -> OVERTAKING_GIVE_WAY
      [] type = CROSSING_GIVE_WAY -> CROSSING_STAND_ON
      [] type = CROSSING_STAND_ON -> CROSSING_GIVE_WAY
      [] OTHER -> type

\* C30: determine_colreg assigns complementary roles to the two ships: for every alpha
\* in [-pi, pi), beta in [0, 2 * pi) and thresholds, the pair with the roles swapped is
\* classified OVERTAKING_STAND_ON where the pair is OVERTAKING_GIVE_WAY and the other
\* way round, CROSSING_GIVE_WAY and CROSSING_STAND_ON exchange likewise, HEAD_ON and
\* NO_RISK_COLLISION are kept; no pair is give-way, or stand-on, for both ships.
C30_ComplementaryRoles ==
    BothClassified => call.swapped = OtherRole(call.out)

\* Both overtaking rules hold for the pair, or it is neither overtaking nor head-on and
\* both crossing rules hold for it: the rule tested first decides, for either ship.
BothRulesOfAPairHold ==
    LET c == call.classification
        overtaking_stand_on ==
            cond_overtaking_stand_on(call.alpha, call.beta, c.theta13_criteria, c.theta15)
        overtaking_give_way ==
            cond_overtaking_give_way(call.alpha, call.beta, c.theta13_criteria, c.theta15)
    IN  \/ overtaking_stand_on /\ overtaking_give_way
        \/ /\ ~overtaking_stand_on
           /\ ~overtaking_give_way
           /\ ~cond_head_on(call.alpha, call.beta, c.theta14_criteria)
           /\ cond_crossing_give_way(call.alpha, call.beta, c.theta15_criteria, c.theta15)
           /\ cond_crossing_stand_on(call.alpha, call.beta, c.theta15_criteria, c.theta15)

\* C30, amended: the roles are complementary for every pair and thresholds but those
\* for which both rules of an exchanged pair hold; for those the two ships get the
\* same classification.
C30_ComplementaryUnlessBothRulesHold ==
    BothClassified =>
        /\ ~BothRulesOfAPairHold => call.swapped = OtherRole(call.out)
        /\ BothRulesOfAPairHold =>
               /\ call.swapped = call.out
               /\ call.out \in {OVERTAKING_STAND_ON, CROSSING_GIVE_WAY}

\* C30: a pair that is CROSSING_GIVE_WAY for one ship and CROSSING_STAND_ON for the
\* other, its angles off the axes.
C30_Witness ==
    /\ BothClassified
    /\ call.out = CROSSING_GIVE_WAY
    /\ call.swapped = CROSSING_STAND_ON
    /\ call.alpha < -colreg_limit
    /\ call.beta > colreg_limit

\* C30, the case: a pair that is CROSSING_GIVE_WAY for both ships.
C30_GiveWayForBothShips ==
    /\ BothClassified
    /\ call.out = CROSSING_GIVE_WAY
    /\ call.swapped = CROSSING_GIVE_WAY

====
